---------------------------- MODULE Spec2Model ----------------------------
(***************************************************************************)
(* A model of the HTML analyser: the lexical extractor                     *)
(* (analyse_structure_html.py), the HTML cleaner (scrap_clean/             *)
(* clean_html.py) and the batch orchestrator and aggregator                *)
(* (batch_analyse.py).                                                     *)
(*                                                                         *)
(* Python strings are TLA+ strings; Len, SubSeq and \o act on them         *)
(* character by character, so tokenising, joining, splitting and           *)
(* stripping are computed on the characters, as the code does.             *)
(***************************************************************************)
EXTENDS Integers, Sequences, FiniteSets, TLC

VARIABLES
    STOPWORDS,      \* analyse_structure_html.STOPWORDS, loaded once at import
    text,           \* the text handed to extract_ngrams
    npieces,        \* number of pieces the text was built from
    call,           \* the arguments of the call of extract_ngrams
    ngram_freqs,    \* extract_ngrams' result: n -> Counter
    top_keywords,   \* analyze_html's combined Counter
    top20,          \* analyze_html's dominant keywords
    lex_pc,         \* "input" | "ngrams" | "analyzed" | "main"
    args,           \* the options of a run of analyse_structure_html's main
    PUNKT,          \* whether nltk's sentence tokenizer is available
    urls,           \* process_urls' input list
    all_data,       \* process_urls' records, one appended per URL
    analyses,       \* per record, what analyze_html computed before flattening it
    all_keywords,   \* aggregate_keywords' counter while it folds the records
    folded,         \* number of records aggregate_keywords has folded in
    graph,          \* the co-occurrence graph: [nodes, edges]
    pc,             \* where process_urls is
    soup,           \* the BeautifulSoup tree clean_soup or analyze_html works on
    soup_in,        \* the tree as it was parsed, before anything was removed
    keep_images,    \* clean_soup's keep_images
    passes,         \* number of times clean_soup was applied to the tree
    page_url,       \* analyze_html's url ("" when none is given)
    internal_anchors, \* analyze_html's internal_anchors
    page_text,      \* get_visible_text's result
    internal_links, \* analyze_html's internal_links
    dom_pc,         \* "build" | "cleaned" | "analyzed"
    list_urls,      \* batch_clean: the URLs read from the list
    concurrency,    \* batch_clean: --concurrency
    out_files,      \* batch_clean: the files of the output directory: path -> job that wrote it (0: there before)
    targets,        \* batch_clean: the output path given to each URL submitted so far
    jobs,           \* batch_clean: the state of the job of each URL submitted so far
    overwritten,    \* batch_clean: the paths a second job has written over
    clean_pc,       \* batch_clean: where main is
    keep_temp,      \* batch_analyse: --keep-temp
    temp_exists,    \* batch_analyse: whether the temporary directory exists
    log_pages       \* batch_analyse: the number log.txt gives as pages handled with success

lexVars == <<text, npieces, call, ngram_freqs, top_keywords, top20, lex_pc, args>>

batchVars == <<PUNKT, urls, all_data, analyses, all_keywords, folded, graph, pc>>

jobVars == <<list_urls, concurrency, out_files, targets, jobs, overwritten, clean_pc>>

runVars == <<keep_temp, temp_exists, log_pages>>

domVars == <<soup, soup_in, keep_images, passes, page_url, internal_anchors, page_text,
             internal_links, dom_pc>>

-----------------------------------------------------------------------------
(* Bounds of the model. *)

\* Nodes a parsed tree holds.
MaxNodes == 3

\* Times clean_soup is applied to one tree.
MaxPasses == 2

\* Pieces a text is built from.
MaxPieces == 3

\* Largest n-gram order drawn for a direct call of extract_ngrams.
MaxN == 3

\* URLs a batch holds.
MaxUrls == 2

-----------------------------------------------------------------------------
(* Characters and strings. *)

Ch(s, i) == SubSeq(s, i, i)

Chars(s) == {Ch(s, i) : i \in 1..Len(s)}

Min(a, b) == IF a < b THEN a ELSE b

Digits == "0123456789"

UpperLetters == "ABCDEFGHIJKLMNOPQRSTUVWXYZ"

LowerLetters == "abcdefghijklmnopqrstuvwxyz"

\* str.lower() on every upper-case letter.
LowerOf == [c \in Chars(UpperLetters) |->
               Ch(LowerLetters, CHOOSE i \in 1..Len(UpperLetters) : Ch(UpperLetters, i) = c)]

\* str.lower() on one character.
LowerCh(c) == IF c \in DOMAIN LowerOf THEN LowerOf[c] ELSE c

RECURSIVE Lower(_)
\* str.lower()
Lower(s) ==
    IF Len(s) <= 1 THEN LowerCh(s)
    ELSE Lower(SubSeq(s, 1, Len(s) \div 2)) \o Lower(SubSeq(s, Len(s) \div 2 + 1, Len(s)))

\* A sequence given as a function, with its elements evaluated once.
List(f) == f \o <<>>

Range(seq) == {seq[i] : i \in 1..Len(seq)}

\* The elements of a finite set of integers, in increasing order.
Sorted(S) == List([k \in 1..Cardinality(S) |->
                      CHOOSE i \in S : Cardinality({j \in S : j <= i}) = k])

\* Characters str.split() and str.strip() treat as white space.
WhiteSpace == {" ", "\t", "\n"}

\* str.strip(chars): the string from its first to its last character outside chars.
StripChars(s, cs) ==
    LET kept == {i \in 1..Len(s) : Ch(s, i) \notin cs}
    IN  IF kept = {} THEN ""
        ELSE SubSeq(s, CHOOSE i \in kept : \A j \in kept : i <= j,
                       CHOOSE i \in kept : \A j \in kept : j <= i)

\* str.strip()
Strip(s) == StripChars(s, WhiteSpace)

\* The maximal runs of characters of s that lie in cs (keep = TRUE) or
\* outside cs (keep = FALSE), in order.
Runs(s, cs, keep) ==
    LET in     == List([i \in 1..Len(s) |-> (Ch(s, i) \in cs) = keep])
        starts == Sorted({i \in 1..Len(s) : in[i] /\ (i = 1 \/ ~in[i - 1])})
        ends   == Sorted({i \in 1..Len(s) : in[i] /\ (i = Len(s) \/ ~in[i + 1])})
    IN  List([k \in 1..Len(starts) |-> SubSeq(s, starts[k], ends[k])])

\* str.split(): the runs of non-white-space characters.
Split(s) == Runs(s, WhiteSpace, FALSE)

\* str.split(sep) for a one-character separator: the pieces between the
\* separators, empty pieces kept.
SplitOn(s, sep) ==
    LET cuts == Sorted({0, Len(s) + 1} \cup {i \in 1..Len(s) : Ch(s, i) = sep})
    IN  List([k \in 1..(Len(cuts) - 1) |-> SubSeq(s, cuts[k] + 1, cuts[k + 1] - 1)])

RECURSIVE Join(_, _)
\* sep.join(parts)
Join(parts, sep) ==
    IF Len(parts) = 0 THEN ""
    ELSE IF Len(parts) = 1 THEN parts[1]
    ELSE Join(SubSeq(parts, 1, Len(parts) \div 2), sep) \o sep
            \o Join(SubSeq(parts, Len(parts) \div 2 + 1, Len(parts)), sep)

\* str.startswith(prefix)
StartsWith(str, prefix) == Len(str) >= Len(prefix) /\ SubSeq(str, 1, Len(prefix)) = prefix

\* str.endswith(suffix)
EndsWith(str, suffix) ==
    Len(str) >= Len(suffix) /\ SubSeq(str, Len(str) - Len(suffix) + 1, Len(str)) = suffix

\* The places where the string sep starts in s.
Finds(s, sep) == {i \in 1..(Len(s) - Len(sep) + 1) : SubSeq(s, i, i + Len(sep) - 1) = sep}

\* s.split(sep) for a separator that cannot overlap itself.
SplitOnStr(s, sep) ==
    LET at == Sorted(Finds(s, sep))
    IN  List([k \in 1..(Len(at) + 1) |->
                SubSeq(s, IF k = 1 THEN 1 ELSE at[k - 1] + Len(sep),
                          IF k = Len(at) + 1 THEN Len(s) ELSE at[k] - 1)])

RECURSIVE IntStr(_)
\* str(n) for an integer n >= 0
IntStr(n) == IF n < 10 THEN Ch(Digits, n + 1) ELSE IntStr(n \div 10) \o Ch(Digits, (n % 10) + 1)

IsDigits(s) == s # "" /\ \A i \in 1..Len(s) : Ch(s, i) \in Chars(Digits)

DigitValue(c) == (CHOOSE i \in 1..10 : Ch(Digits, i) = c) - 1

RECURSIVE ParseInt(_)
\* int(s) for a string of digits
ParseInt(s) ==
    IF Len(s) = 1 THEN DigitValue(s)
    ELSE 10 * ParseInt(SubSeq(s, 1, Len(s) - 1)) + DigitValue(Ch(s, Len(s)))

-----------------------------------------------------------------------------
(* collections.Counter: a dict, which keeps its keys in insertion order.   *)
(* A Counter is the sequence of its items [k |-> key, v |-> count].        *)

Keys(c) == {c[i].k : i \in 1..Len(c)}

KeyList(c) == List([i \in 1..Len(c) |-> c[i].k])

\* c[key], 0 for a missing key
Count(c, key) ==
    IF key \in Keys(c) THEN c[CHOOSE i \in 1..Len(c) : c[i].k = key].v ELSE 0

\* The number of places of the list that hold the key.
Times(list, key) == Cardinality({i \in 1..Len(list) : list[i] = key})

\* The list without the repetitions of its elements: first occurrences, in order.
Firsts(list) ==
    LET first == Sorted({i \in 1..Len(list) : \A j \in 1..(i - 1) : list[j] # list[i]})
    IN  List([k \in 1..Len(first) |-> list[first[k]]])

\* c[key] += 1 for every key of the list, in the list's order: the counts of
\* c's keys grow in place, new keys are inserted at their first occurrence.
CounterAddEach(c, list) ==
    LET new == SelectSeq(Firsts(list), LAMBDA key : key \notin Keys(c))
    IN  List([i \in 1..Len(c) |-> [k |-> c[i].k, v |-> c[i].v + Times(list, c[i].k)]])
            \o List([i \in 1..Len(new) |-> [k |-> new[i], v |-> Times(list, new[i])]])

\* Counter(list)
CounterOfList(list) == CounterAddEach(<<>>, list)

\* A mutation of CounterUpdate: c[k] = v, the count of d replaces the count
\* of c.
CounterOverwrite(c, d) ==
    List([i \in 1..Len(c) |->
            [k |-> c[i].k, v |-> IF c[i].k \in Keys(d) THEN Count(d, c[i].k) ELSE c[i].v]])
        \o SelectSeq(d, LAMBDA item : item.k \notin Keys(c))

\* c[k] += v for every item of the dict d, in d's order (Counter.update(d)).
CounterUpdate(c, d) ==
    List([i \in 1..Len(c) |-> [k |-> c[i].k, v |-> c[i].v + Count(d, c[i].k)]])
        \o SelectSeq(d, LAMBDA item : item.k \notin Keys(c))

\* A mutation of SortedBefore: equal counts are put in reverse order.
SortedBeforeReversed(c) ==
    List([i \in 1..Len(c) |->
            Cardinality({j \in 1..Len(c) : c[j].v > c[i].v \/ (c[j].v = c[i].v /\ j > i)})])

\* sorted(items, key=count, reverse=True): for every item, the number of items
\* sorted before it (a stable sort: equal counts keep their order).
SortedBefore(c) ==
    List([i \in 1..Len(c) |->
            Cardinality({j \in 1..Len(c) : c[j].v > c[i].v \/ (c[j].v = c[i].v /\ j < i)})])

\* Counter.most_common(n): the n items of largest count, by count descending,
\* items of equal count in insertion order.
most_common(c, n) ==
    LET before == SortedBefore(c)
    IN  List([r \in 1..Min(n, Len(c)) |-> c[CHOOSE i \in 1..Len(c) : before[i] = r - 1]])

-----------------------------------------------------------------------------
(* The stop-word set. *)

\* nltk's French stop-word corpus (an excerpt of stopwords.words('french')).
NLTK_FRENCH ==
    {"au", "aux", "avec", "ce", "ces", "dans", "de", "des", "du", "elle", "en",
     "et", "eux", "il", "je", "la", "le", "leur", "lui", "ma", "mais", "me",
     "mes", "moi", "mon", "ne", "nos", "notre", "nous", "on", "ou", "par",
     "pas", "pour", "qu", "que", "qui", "sa", "se", "ses", "son", "sur", "ta",
     "te", "tes", "toi", "ton", "tu", "un", "une", "vos", "votre", "vous",
     "avons", "avez", "serait", "sommes"}

\* The built-in list united with STOPWORDS.
BUILTIN_STOPWORDS ==
    {"je", "tu", "il", "elle", "nous", "vous", "ils", "elles", "on", "moi", "toi", "lui", "eux",
     "ce", "cet", "cette", "ces", "celui", "celle", "ceux",
     "mon", "ton", "son", "ma", "ta", "sa", "mes", "tes", "ses", "notre", "votre", "leur",
     "un", "une", "des", "la", "le", "les", "l",
     "à", "de", "en", "pour", "par", "avec", "sans", "dans", "sous", "sur", "entre", "vers", "durant",
     "et", "ou", "mais", "donc", "car", "ni", "que", "qui", "si", "comme", "alors", "lorsque",
     "être", "avoir", "aller", "faire", "venir", "pouvoir", "devoir", "vouloir", "fallir", "sembler",
     "est", "sont", "était", "étaient", "a", "ont", "ai", "as", "ait", "aient", "suis", "es",
     "va", "vont", "allé", "allée", "allés", "allées", "vais", "vas",
     "fait", "font", "faits", "faisait", "faisaient", "fais", "fera", "feront",
     "ça", "ca", "là", "ci", "pas", "plus", "moins", "très", "bien", "mal", "bon", "meilleur",
     "d'un", "d'une", "qu'un", "c'est", "l'", "d'", "s'", "t'", "m'", "n'", "j'",
     "même", "autre", "tel", "telle", "etc", "autant", "aussi", "seulement", "surtout",
     "quelque", "quelques", "quelqu'un", "aucun", "aucune", "nul", "nulle",
     "tout", "tous", "toute", "toutes"}

\* A mutation of STOPWORDS_EXTENDED: the built-in list is not united in.
STOPWORDS_FROM_NLTK_ONLY == STOPWORDS

STOPWORDS_EXTENDED == STOPWORDS \cup BUILTIN_STOPWORDS

-----------------------------------------------------------------------------
(* extract_ngrams *)

\* The accented letters of the token pattern (its last one, the ligature oe, is
\* outside the characters a string can hold here and is left out).
Accented == "àâçéèêëîïôûùüÿñæ"

\* The character class of the token pattern.
TokenChars ==
    Chars(Digits) \cup Chars(LowerLetters) \cup Chars(UpperLetters)
        \cup Chars(Accented) \cup {"'", "-"}

\* re.findall of the token pattern: the maximal runs of token characters.
FindAll(s) == Runs(s, TokenChars, TRUE)

\* A mutation of IsWord: the length test is off by one (len(w) >= 2).
IsWordShort(w) == w # "" /\ Lower(w) \notin STOPWORDS_EXTENDED /\ Len(w) >= 2

\* A mutation of IsWord: the stop words are left in the token stream.
IsWordOfAnyKind(w) == w # "" /\ Len(w) > 2

\* The filter of the token stream.
IsWord(w) == w # "" /\ Lower(w) \notin STOPWORDS_EXTENDED /\ Len(w) > 2

\* The surviving tokens of a text.
Words(t) == SelectSeq(FindAll(Lower(t)), IsWord)

\* A mutation of ngrams: the last window is missed.
ngrams_short(words, n) ==
    List([i \in 1..(IF Len(words) >= n + 1 THEN Len(words) - n ELSE 0) |->
             SubSeq(words, i, i + n - 1)])

\* nltk.util.ngrams(words, n): the windows of n consecutive words.
ngrams(words, n) ==
    List([i \in 1..(IF Len(words) >= n THEN Len(words) - n + 1 ELSE 0) |->
             SubSeq(words, i, i + n - 1)])

\* The re-check after windowing: no space-split part of k is a stop word.
NoStopPart(item) == \A w \in Range(Split(item.k)) : Lower(w) \notin STOPWORDS_EXTENDED

\* text or "": the text, "" when the call is made with None.
OrEmpty(no_text, t) == IF no_text THEN "" ELSE t

\* The table of order n.
NgramTable(words, n) ==
    IF Len(words) < n THEN <<>>
    ELSE LET ng   == ngrams(words, n)
             freq == CounterOfList(List([i \in 1..Len(ng) |-> Join(ng[i], " ")]))
         IN  SelectSeq(freq, NoStopPart)

\* A mutation of extract_ngrams: an order with too few tokens gets no table.
extract_ngrams_skipping(t, n_min, n_max) ==
    LET words == Words(t)
    IN  [n \in {m \in n_min..n_max : Len(words) >= m} |-> NgramTable(words, n)]

\* extract_ngrams(text, n_min, n_max): n -> Counter
extract_ngrams(t, n_min, n_max) ==
    LET words == Words(t)
    IN  [n \in n_min..n_max |-> NgramTable(words, n)]

\* The defaults of extract_ngrams' n_min and n_max.
DEFAULT_NMIN == 1

DEFAULT_NMAX == 5

\* The number of dominant keywords analyze_html keeps.
TOP_K == 20

RECURSIVE SumTables(_, _, _)
\* top_keywords.update(freq) for every table, in increasing n.
SumTables(tables, n, c) ==
    IF n \notin DOMAIN tables THEN c
    ELSE SumTables(tables, n + 1, CounterUpdate(c, tables[n]))

\* The combined counter of a result of extract_ngrams over n_min..n_max.
CombinedCounter(tables, n_min) == SumTables(tables, n_min, <<>>)

\* A mutation of TopList: one keyword too many is kept.
TopListLong(c) == KeyList(most_common(c, TOP_K + 1))

\* [kw for kw, _ in top_keywords.most_common(20)]
TopList(c) == KeyList(most_common(c, TOP_K))

-----------------------------------------------------------------------------
(* The lexical extractor on its own: a text is built from pieces, then     *)
(* either extract_ngrams is called on it with some (n_min, n_max), or      *)
(* analyze_html's keyword steps run on it.                                 *)

Pieces ==
    {"Le chat noir mange le poisson. ",
     "Le chat noir dort. ",
     "les prix|total d'un an ",
     "L'eau-de-vie 100% bio ",
     "nos amis ",
     "sous-"}

\* The state of the parts of the program a specification does not run.
\* main was not run.
NoArgs == [nmin |-> 0, nmax |-> 0, top |-> 0]

\* No call of extract_ngrams was made.
NoCall == [no_text |-> FALSE, n_min |-> 0, n_max |-> 0]

IdleLex ==
    /\ text = ""
    /\ npieces = 0
    /\ call = NoCall
    /\ ngram_freqs = <<>>
    /\ top_keywords = <<>>
    /\ top20 = <<>>
    /\ lex_pc = "idle"
    /\ args = NoArgs

IdleBatch ==
    /\ PUNKT = FALSE
    /\ urls = <<>>
    /\ all_data = <<>>
    /\ analyses = <<>>
    /\ all_keywords = <<>>
    /\ folded = 0
    /\ graph = [nodes |-> <<>>, edges |-> <<>>]
    /\ pc = "idle"

IdleJobs ==
    /\ list_urls = <<>>
    /\ concurrency = 0
    /\ out_files = <<>>
    /\ targets = <<>>
    /\ jobs = <<>>
    /\ overwritten = {}
    /\ clean_pc = "idle"

\* main of batch_analyse is not run: no log is written, no directory made.
IdleRun ==
    /\ keep_temp = FALSE
    /\ temp_exists = FALSE
    /\ log_pages = 0

IdleDom ==
    /\ soup = <<>>
    /\ soup_in = <<>>
    /\ keep_images = FALSE
    /\ passes = 0
    /\ page_url = ""
    /\ internal_anchors = <<>>
    /\ page_text = ""
    /\ internal_links = <<>>
    /\ dom_pc = "idle"

InitLex ==
    /\ STOPWORDS \in {NLTK_FRENCH, {}}
    /\ IdleBatch
    /\ IdleDom
    /\ IdleJobs
    /\ IdleRun
    /\ text = ""
    /\ npieces = 0
    /\ call = NoCall
    /\ ngram_freqs = <<>>
    /\ top_keywords = <<>>
    /\ top20 = <<>>
    /\ lex_pc = "input"
    /\ args = NoArgs

AppendPiece ==
    /\ lex_pc = "input"
    /\ npieces < MaxPieces
    /\ \E p \in Pieces : text' = text \o p
    /\ npieces' = npieces + 1
    /\ UNCHANGED <<STOPWORDS, jobVars, runVars, call, ngram_freqs, top_keywords, top20, lex_pc, args, batchVars, domVars>>

\* A direct call extract_ngrams(text, n_min, n_max); where no text was built,
\* the call is made with "" or with None.
ExtractNgrams ==
    /\ lex_pc = "input"
    /\ \E no_text \in (IF text = "" THEN BOOLEAN ELSE {FALSE}) :
       \E n_min \in 1..MaxN : \E n_max \in n_min..MaxN :
          /\ call' = [no_text |-> no_text, n_min |-> n_min, n_max |-> n_max]
          /\ ngram_freqs' = extract_ngrams(OrEmpty(no_text, text), n_min, n_max)
    /\ lex_pc' = "ngrams"
    /\ UNCHANGED <<STOPWORDS, jobVars, runVars, text, npieces, top_keywords, top20, args, batchVars, domVars>>

\* analyze_html's keyword steps on the visible text.
AnalyzeText ==
    /\ lex_pc = "input"
    /\ call' = [no_text |-> FALSE, n_min |-> DEFAULT_NMIN, n_max |-> DEFAULT_NMAX]
    /\ ngram_freqs' = extract_ngrams(OrEmpty(FALSE, text), DEFAULT_NMIN, DEFAULT_NMAX)
    /\ top_keywords' = CombinedCounter(ngram_freqs', DEFAULT_NMIN)
    /\ top20' = TopList(top_keywords')
    /\ lex_pc' = "analyzed"
    /\ UNCHANGED <<STOPWORDS, jobVars, runVars, text, npieces, args, batchVars, domVars>>

\* The options --nmin, --nmax and --top of a run of main: the defaults, or
\* other values.
MainOptions ==
    {[nmin |-> 1, nmax |-> 5, top |-> 20],
     [nmin |-> 2, nmax |-> 3, top |-> 5]}

\* main: the options are parsed, and analyze_html is called with the input
\* file and the url; its keyword steps run on the visible text.
Main ==
    /\ lex_pc = "input"
    /\ args' \in MainOptions
    /\ call' = [no_text |-> FALSE, n_min |-> DEFAULT_NMIN, n_max |-> DEFAULT_NMAX]
    /\ ngram_freqs' = extract_ngrams(OrEmpty(FALSE, text), DEFAULT_NMIN, DEFAULT_NMAX)
    /\ top_keywords' = CombinedCounter(ngram_freqs', DEFAULT_NMIN)
    /\ top20' = TopList(top_keywords')
    /\ lex_pc' = "main"
    /\ UNCHANGED <<STOPWORDS, jobVars, runVars, text, npieces, batchVars, domVars>>

vars == <<STOPWORDS, lexVars, batchVars, domVars, jobVars, runVars>>

NextLex == AppendPiece \/ ExtractNgrams \/ AnalyzeText \/ Main

SpecLex == InitLex /\ [][NextLex]_vars

-----------------------------------------------------------------------------
(* Properties of the lexical extractor. *)

\* The tokens of a term: the term split on single spaces.
TermTokens(term) == SplitOn(term, " ")

\* The terms the windows of n consecutive surviving tokens form, by position:
\* the tokens joined by one space.
Windows(words, n) ==
    List([i \in 1..(Len(words) - n + 1) |-> Join(SubSeq(words, i, i + n - 1), " ")])

\* The positions at which the window is the term.
Occurrences(wins, term) == {i \in 1..Len(wins) : wins[i] = term}

ExtractDone == lex_pc \in {"ngrams", "analyzed"}

\* C1: every key of every table extract_ngrams returns, split on spaces, is made
\* only of tokens outside the stop-word set, each longer than 2 characters.
C1_KeysFreeOfStopWords ==
    ExtractDone =>
        \A n \in DOMAIN ngram_freqs : \A key \in Keys(ngram_freqs[n]) :
            \A tok \in Range(TermTokens(key)) :
                tok \notin STOPWORDS_EXTENDED /\ Len(tok) > 2

\* C1's case: a text that held stop words or short tokens, and a table with a
\* key of several tokens.
C1_Witness ==
    /\ lex_pc = "ngrams"
    /\ Len(FindAll(Lower(text))) > Len(Words(text))
    /\ \E n \in DOMAIN ngram_freqs : \E key \in Keys(ngram_freqs[n]) :
          Len(TermTokens(key)) > 1

TheExampleText == "Le chat noir mange le poisson. " \o "Le chat noir dort. "

\* C2: for every order n with at least n surviving tokens, the table of order n
\* maps each term to the number of positions at which the n consecutive
\* surviving tokens, joined by one space, are that term (and holds no other
\* term); the example text with orders 1..2 gives "chat noir" the count 2.
C2_TableCountsWindows ==
    ExtractDone =>
        LET words == Words(text)
        IN  /\ \A n \in DOMAIN ngram_freqs :
                  Len(words) >= n =>
                      LET wins == Windows(words, n)
                      IN  /\ Keys(ngram_freqs[n]) = Range(wins)
                          /\ \A term \in Range(wins) :
                                Count(ngram_freqs[n], term)
                                    = Cardinality(Occurrences(wins, term))
            /\ (text = TheExampleText /\ DOMAIN ngram_freqs = 1..2)
                  => Count(ngram_freqs[2], "chat noir") = 2

\* C2's case: the example text, analysed for the orders 1..2, where the window
\* "noir mange" ... "poisson chat" spans removed stop words.
C2_Witness ==
    /\ lex_pc = "ngrams"
    /\ text = TheExampleText
    /\ DOMAIN ngram_freqs = 1..2
    /\ "poisson chat" \in Keys(ngram_freqs[2])

NoDuplicates(seq) == \A i, j \in 1..Len(seq) : i # j => seq[i] # seq[j]

\* C9: the dominant-keyword list has no duplicates and exactly
\* min(K, number of distinct terms of the combined counter) entries.
C9_TopListLength ==
    lex_pc = "analyzed" =>
        /\ NoDuplicates(top20)
        /\ Len(top20) <= TOP_K
        /\ Len(top20) <= Cardinality(Keys(top_keywords))
        /\ Len(top20) = Min(TOP_K, Cardinality(Keys(top_keywords)))

\* C9's case: a text with more than K distinct terms, so the list is cut.
C9_Witness ==
    /\ lex_pc = "analyzed"
    /\ Cardinality(Keys(top_keywords)) > TOP_K
    /\ Len(top20) = TOP_K

\* The place of a term in the build order of the combined counter: its order n,
\* then its first occurrence in the stream of surviving tokens.
TermOrder(term) == Len(TermTokens(term))

FirstOccurrence(wins, term) ==
    CHOOSE i \in Occurrences(wins, term) : \A j \in Occurrences(wins, term) : i <= j

\* The rank of every item of the counter c built from the stream words, in c's
\* order: <<count, order n, first occurrence>>.
Ranks(words, c) ==
    LET wins == [n \in DEFAULT_NMIN..DEFAULT_NMAX |-> Windows(words, n)]
        rankOf(item) ==
            <<item.v, TermOrder(item.k), FirstOccurrence(wins[TermOrder(item.k)], item.k)>>
    IN  List([i \in 1..Len(c) |-> rankOf(c[i])])

\* The position of a key in the counter c.
IndexOf(c, key) == CHOOSE i \in 1..Len(c) : c[i].k = key

\* A term of rank ra comes before a term of rank rb: a larger count, or the same
\* count and an earlier place in the build order (a smaller n, or the same n and
\* an earlier first occurrence).
RankedBefore(ra, rb) ==
    \/ ra[1] > rb[1]
    \/ ra[1] = rb[1] /\ ra[2] < rb[2]
    \/ ra[1] = rb[1] /\ ra[2] = rb[2] /\ ra[3] < rb[3]

\* C10: the dominant-keyword list is ordered by combined count descending, equal
\* counts in the build order of the combined counter, and a term is left out
\* only if K terms come before it in that order.
C10_TopListOrder ==
    lex_pc = "analyzed" =>
        /\ Range(top20) \subseteq Keys(top_keywords)
        /\ LET rank  == Ranks(Words(text), top_keywords)
               place == List([i \in 1..Len(top20) |-> IndexOf(top_keywords, top20[i])])
           IN  /\ \A i \in 1..(Len(top20) - 1) :
                     RankedBefore(rank[place[i]], rank[place[i + 1]])
               /\ \A t \in 1..Len(top_keywords) :
                     top_keywords[t].k \notin Range(top20) =>
                         Cardinality({u \in 1..Len(top_keywords) :
                                         RankedBefore(rank[u], rank[t])}) >= TOP_K

\* C10's case: more than K terms, and the cut falls between terms of equal count.
C10_Witness ==
    /\ lex_pc = "analyzed"
    /\ Len(top20) = TOP_K
    /\ \E term \in Keys(top_keywords) \ Range(top20) :
          Count(top_keywords, term) = Count(top_keywords, top20[TOP_K])
    /\ \E i \in 1..(TOP_K - 1) : Count(top_keywords, top20[i]) > Count(top_keywords, top20[i + 1])

\* C11: extract_ngrams returns one table for each n of n_min..n_max and no
\* other; the table of an order with fewer than n surviving tokens is empty;
\* for an empty or missing text every table is empty, and so is the
\* dominant-keyword list.
C11_OneTablePerOrder ==
    ExtractDone =>
        /\ DOMAIN ngram_freqs = call.n_min..call.n_max
        /\ \A n \in call.n_min..call.n_max :
              Len(Words(text)) < n => ngram_freqs[n] = <<>>
        /\ (text = "" \/ call.no_text) =>
              \A n \in call.n_min..call.n_max : ngram_freqs[n] = <<>>
        /\ (lex_pc = "analyzed" /\ text = "") => top_keywords = <<>> /\ top20 = <<>>

\* C11's case: a call for the orders 1..3 on a text of which fewer than 3
\* tokens survive: the first table has keys, the third is empty.
C11_Witness ==
    /\ lex_pc = "ngrams"
    /\ call.n_min = 1 /\ call.n_max = 3
    /\ ngram_freqs[1] # <<>>
    /\ Len(Words(text)) < 3
    /\ ngram_freqs[3] = <<>>

\* The NLTK list could not be had: the lookup and the download failed, and
\* STOPWORDS is the empty set of the except clause.
NltkUnavailable == STOPWORDS = {}

NgramTableUnchecked(words, n) ==
    IF Len(words) < n THEN <<>>
    ELSE LET ng == ngrams(words, n)
         IN  CounterOfList(List([i \in 1..Len(ng) |-> Join(ng[i], " ")]))

\* C22: the re-check after windowing discards nothing: for every text and
\* every range of orders, each table extract_ngrams returns is the table
\* obtained without the re-check.
C22_RecheckRedundant ==
    ExtractDone =>
        \A n \in DOMAIN ngram_freqs :
            ngram_freqs[n] = NgramTableUnchecked(Words(OrEmpty(call.no_text, text)), n)

\* C22's case: stop words were taken out of the token stream, and the tables
\* of the orders 2 and 3 hold terms.
C22_Witness ==
    /\ lex_pc = "ngrams"
    /\ \E w \in Range(FindAll(Lower(text))) : w \in STOPWORDS_EXTENDED
    /\ {2, 3} \subseteq DOMAIN ngram_freqs
    /\ ngram_freqs[2] # <<>> /\ ngram_freqs[3] # <<>>

\* C23: a run of main honours its options: the tables of the record cover the
\* orders --nmin..--nmax and the dominant keywords are at most --top.
C23_OptionsHonoured ==
    lex_pc = "main" =>
        /\ DOMAIN ngram_freqs = args.nmin..args.nmax
        /\ Len(top20) <= args.top

\* What the code does instead: whatever the options, the tables cover the
\* orders 1..5 and the dominant keywords are the 20 first of the ranking.
C23_DefaultsWhateverTheOptions ==
    lex_pc = "main" =>
        /\ DOMAIN ngram_freqs = DEFAULT_NMIN..DEFAULT_NMAX
        /\ Len(top20) = Min(TOP_K, Len(top_keywords))

-----------------------------------------------------------------------------
(* analyze_html: from a page to its flat record. *)

\* Sentence punctuation.
SentenceEnd == {".", "!", "?"}

\* re.split(r"[.!?]+", text): the pieces between the runs of sentence
\* punctuation (its empty pieces hold no word and are dropped by the caller).
SplitSentences(t) == Runs(t, SentenceEnd, FALSE)

\* nltk's sent_tokenize: the text is cut after sentence punctuation that white
\* space follows; a sentence keeps its punctuation.
SentTokenize(t) ==
    LET cuts == Sorted({0, Len(t)} \cup
                       {i \in 1..(Len(t) - 1) : Ch(t, i) \in SentenceEnd /\ Ch(t, i + 1) \in WhiteSpace})
    IN  List([k \in 1..(Len(cuts) - 1) |-> Strip(SubSeq(t, cuts[k] + 1, cuts[k + 1]))])

\* The number of extracted sentences kept.
MAX_PHRASES == 10

\* The least number of words of an extracted sentence.
MIN_PHRASE_WORDS == 6

\* phrases_phare: the first 10 sentences of at least 6 words, stripped.
PhrasesPhare(visible_text) ==
    LET sentences == IF visible_text = "" THEN <<>>
                     ELSE IF PUNKT THEN SentTokenize(visible_text)
                     ELSE SplitSentences(visible_text)
        long == SelectSeq(sentences, LAMBDA sent : Len(Split(sent)) >= MIN_PHRASE_WORDS)
    IN  List([i \in 1..Min(MAX_PHRASES, Len(long)) |-> Strip(long[i])])

\* re.sub(r"\s+", " ", text).strip()
NormalizeSpace(t) == Join(Split(t), " ")

\* A mutation of Repr: the key is always quoted with apostrophes.
ReprWithApostrophes(key) == "'" \o key \o "'"

\* repr(key) of a str without backslash or double quote: quoted with
\* apostrophes, or with double quotes when it holds an apostrophe.
Repr(key) == IF "'" \in Chars(key) THEN "\"" \o key \o "\"" ELSE "'" \o key \o "'"

\* str(dict)
DictStr(d) ==
    "{" \o Join(List([i \in 1..Len(d) |-> Repr(d[i].k) \o ": " \o IntStr(d[i].v)]), ", ") \o "}"

\* The 10 most common items of each non-empty table: "n-grams: k(v), ...".
NgramText(tables) ==
    LET orders == SelectSeq(List([n \in DEFAULT_NMIN..DEFAULT_NMAX |-> n]),
                            LAMBDA n : tables[n] # <<>>)
        line(n) ==
            LET top == most_common(tables[n], 10)
            IN  IntStr(n) \o "-grams: "
                  \o Join(List([i \in 1..Len(top) |-> top[i].k \o "(" \o IntStr(top[i].v) \o ")"]), ", ")
    IN  Join(List([i \in 1..Len(orders) |-> line(orders[i])]), "; ")

\* The length of the text excerpt.
EXCERPT_LEN == 600

Excerpt(t) == IF Len(t) > EXCERPT_LEN THEN SubSeq(t, 1, EXCERPT_LEN) \o "..." ELSE t

\* What analyze_html computes from a page before it flattens it into the record.
Analysis(page) ==
    LET visible_text == NormalizeSpace(page.text)
        tables       == extract_ngrams(visible_text, DEFAULT_NMIN, DEFAULT_NMAX)
        combined     == CombinedCounter(tables, DEFAULT_NMIN)
    IN  [ok           |-> TRUE,
         outcome      |-> "analysed",
         visible_text |-> visible_text,
         ngram_freqs  |-> tables,
         top_keywords |-> combined,
         top20        |-> TopList(combined),
         phrases      |-> PhrasesPhare(visible_text)]

\* The record analyze_html returns for what it computed.
Flatten(a, page, url) ==
        [URL         |-> url,
         Title       |-> Strip(page.title),
         H1          |-> Join(page.h1, " | "),
         H2          |-> Join(page.h2, " | "),
         H3          |-> Join(page.h3, " | "),
         Meta        |-> Strip(page.meta_desc),
         Ancres      |-> Join(page.anchors, " | "),
         MotsCles    |-> Join(a.top20, " | "),
         Ngrams      |-> NgramText(a.ngram_freqs),
         Frequences  |-> DictStr(a.top_keywords),
         Liens       |-> Join(page.links, " | "),
         Phrases     |-> Join(a.phrases, " | "),
         Extrait     |-> Excerpt(a.visible_text)]

\* analyze_html
analyze_html(page, url) == Flatten(Analysis(page), page, url)

-----------------------------------------------------------------------------
(* aggregate_keywords *)

\* [x.strip() for x in str(field).split('|') if x.strip()]
BarList(field) ==
    LET pieces == SplitOn(field, "|")
    IN  SelectSeq(List([i \in 1..Len(pieces) |-> Strip(pieces[i])]), LAMBDA piece : piece # "")

\* One item "repr(key): count" of a dict literal: the key is quoted by two equal
\* quote characters it does not hold, the count is written in digits.
ItemParts(item) == SplitOnStr(item, ": ")

ItemOk(item) ==
    LET parts == ItemParts(item)
    IN  /\ Len(parts) = 2
        /\ Len(parts[1]) >= 2
        /\ Head(parts[1]) \in {"'", "\""}
        /\ Ch(parts[1], Len(parts[1])) = Head(parts[1])
        /\ Head(parts[1]) \notin Chars(SubSeq(parts[1], 2, Len(parts[1]) - 1))
        /\ IsDigits(parts[2])

\* ast.literal_eval of a frequency field: the dict str(dict) wrote for str keys
\* and int counts, [ok |-> FALSE] where literal_eval raises ValueError or
\* SyntaxError.
literal_eval(field) ==
    IF Len(field) < 2 \/ Head(field) # "{" \/ Ch(field, Len(field)) # "}"
    THEN [ok |-> FALSE, dict |-> <<>>]
    ELSE LET body  == SubSeq(field, 2, Len(field) - 1)
             items == IF body = "" THEN <<>> ELSE SplitOnStr(body, ", ")
         IN  IF \E i \in 1..Len(items) : ~ItemOk(items[i])
             THEN [ok |-> FALSE, dict |-> <<>>]
             ELSE [ok   |-> TRUE,
                   dict |-> List([i \in 1..Len(items) |->
                               LET parts == ItemParts(items[i])
                               IN  [k |-> SubSeq(parts[1], 2, Len(parts[1]) - 1),
                                    v |-> ParseInt(parts[2])]])]

\* The characters stripped from a sentence word.
WORD_PUNCTUATION == {".", ",", "!", "?", ";", ":", "(", ")", "'", "\""}

RECURSIVE Concat(_)
\* The concatenation of a sequence of sequences.
Concat(seqs) ==
    IF Len(seqs) = 0 THEN <<>>
    ELSE IF Len(seqs) = 1 THEN seqs[1]
    ELSE Concat(SubSeq(seqs, 1, Len(seqs) \div 2))
            \o Concat(SubSeq(seqs, Len(seqs) \div 2 + 1, Len(seqs)))

\* The words of a sentence that are counted: lower-cased, split on white space,
\* stripped of punctuation, longer than 2.
PhraseWords(phrase) ==
    LET words == Split(Lower(phrase))
    IN  SelectSeq(List([i \in 1..Len(words) |-> StripChars(words[i], WORD_PUNCTUATION)]),
                  LAMBDA word : Len(word) > 2)

\* The counted words of the sentences of a sentence field, in order.
FieldWords(field) ==
    LET phrases == BarList(field)
    IN  Concat(List([i \in 1..Len(phrases) |-> PhraseWords(phrases[i])]))

\* Step 1 of the loop body: the dominant keywords, 1 each.
FoldKeywords(c, data) ==
    IF data.MotsCles # "" THEN CounterAddEach(c, BarList(data.MotsCles)) ELSE c

\* Step 3 of the loop body: the sentence words, 1 each.
FoldPhrases(c, data) ==
    IF data.Phrases # "" THEN CounterAddEach(c, FieldWords(data.Phrases)) ELSE c

\* A mutation of FoldRecord: the counter is started afresh for every record.
FoldRecordAfresh(c, data) ==
    FoldPhrases(CounterUpdate(FoldKeywords(<<>>, data), literal_eval(data.Frequences).dict), data)

\* One turn of aggregate_keywords' loop: the record data folded into c. A
\* frequency field that does not parse ends the turn (continue).
FoldRecord(c, data) ==
    LET c1 == FoldKeywords(c, data)
    IN  IF data.Frequences # "" /\ data.Frequences # "{}"
        THEN LET parsed == literal_eval(data.Frequences)
             IN  IF parsed.ok THEN FoldPhrases(CounterUpdate(c1, parsed.dict), data)
                 ELSE c1
        ELSE FoldPhrases(c1, data)

-----------------------------------------------------------------------------
(* generate_visualizations: the co-occurrence graph. *)

\* The number of terms of the graph.
TOP_N == 30

\* The keywords of a page: its dominant keywords and the keys of its
\* frequency field.
PageKeywords(data) ==
    (IF data.MotsCles # "" THEN Range(BarList(data.MotsCles)) ELSE {})
      \cup (IF data.Frequences # "" /\ data.Frequences # "{}"
            THEN Keys(literal_eval(data.Frequences).dict) ELSE {})

\* The pairs of distinct keywords of a page that lie in the top list.
PagePairs(data, top_keywords_list) ==
    LET kws == {kw \in PageKeywords(data) : kw \in Range(top_keywords_list)}
    IN  {{a, b} : a \in kws, b \in kws} \ {{a} : a \in kws}

\* A mutation of AddPairs: an edge already in the graph keeps its weight.
AddPairsOnce(edges, pairs) ==
    [e \in (DOMAIN edges) \cup pairs |-> IF e \in DOMAIN edges THEN edges[e] ELSE 1]

\* The edges after a page: the weight of an edge of the page grows by 1, an
\* edge the graph lacks is added with weight 1. edges: pair -> weight.
AddPairs(edges, pairs) ==
    [e \in (DOMAIN edges) \cup pairs |->
        IF e \in DOMAIN edges
        THEN (IF e \in pairs THEN edges[e] + 1 ELSE edges[e])
        ELSE 1]

RECURSIVE Cooccurrences(_, _, _)
\* The edges after every record from place i on was handled, in order.
Cooccurrences(records, top_keywords_list, edges) ==
    IF records = <<>> THEN edges
    ELSE Cooccurrences(Tail(records), top_keywords_list,
                       AddPairs(edges, PagePairs(Head(records), top_keywords_list)))

-----------------------------------------------------------------------------
(* process_urls *)

\* The URLs of a batch: a batch is a prefix of this list.
UrlList == <<"https://a.fr/", "https://b.fr/p", "https://a.fr/", "https://b.fr/q">>

\* A page with a text and nothing else.
TextPage(title, t) ==
    [title |-> title, meta_desc |-> "", h1 |-> <<>>, h2 |-> <<>>, h3 |-> <<>>,
     anchors |-> <<>>, links |-> <<>>, text |-> t]

\* The pages a URL may serve, as analyze_html reads them.
Pages ==
    {TextPage(" Chats ", "Le chat noir mange le poisson. " \o "Le chat noir dort. "),
     [TextPage("Prix", "les prix|total d'un an " \o "L'eau-de-vie 100% bio " \o "nos amis ")
        EXCEPT !.h1 = <<"Prix", "Total">>, !.anchors = <<"Haut">>, !.links = <<"https://a.fr/x">>],
     TextPage("Zoo", "Le lion, le tigre, la girafe et le singe regardent passer "
                       \o "un vieil homme! Le chat noir dort? "),
     TextPage("", "")}

\* A mutation of ErrorRecord: the title is the text of the exception alone.
ErrorRecordUnmarked(url, message) ==
    [URL |-> url, Title |-> message,
     H1 |-> "", H2 |-> "", H3 |-> "", Meta |-> "", Ancres |-> "",
     MotsCles |-> "", Ngrams |-> "", Frequences |-> "", Liens |-> "",
     Phrases |-> "", Extrait |-> ""]

\* The record of a URL that failed, with the text of the exception.
ErrorRecord(url, message) ==
    [URL |-> url, Title |-> "ERREUR: " \o message,
     H1 |-> "", H2 |-> "", H3 |-> "", Meta |-> "", Ancres |-> "",
     MotsCles |-> "", Ngrams |-> "", Frequences |-> "", Liens |-> "",
     Phrases |-> "", Extrait |-> ""]

\* What the model remembers of a URL that failed: nothing was analysed; outcome
\* tells which failure it was.
NoAnalysis ==
    [ok |-> FALSE, outcome |-> "", visible_text |-> "", ngram_freqs |-> <<>>,
     top_keywords |-> <<>>, top20 |-> <<>>, phrases |-> <<>>]

InitBatch ==
    /\ STOPWORDS \in {NLTK_FRENCH, {}}
    /\ IdleLex
    /\ IdleDom
    /\ IdleJobs
    /\ IdleRun
    /\ PUNKT \in BOOLEAN
    /\ \E n \in 0..MaxUrls : urls = SubSeq(UrlList, 1, n)
    /\ all_data = <<>>
    /\ analyses = <<>>
    /\ all_keywords = <<>>
    /\ folded = 0
    /\ graph = [nodes |-> <<>>, edges |-> <<>>]
    /\ pc = "loop"

\* The URL the loop is at.
CurrentUrl == urls[Len(all_data) + 1]

\* A turn of the loop that ends in the except clause.
Fail(outcome, message) ==
    /\ pc = "loop"
    /\ Len(all_data) < Len(urls)
    /\ all_data' = Append(all_data, ErrorRecord(CurrentUrl, message))
    /\ analyses' = Append(analyses, [NoAnalysis EXCEPT !.outcome = outcome])
    /\ UNCHANGED <<STOPWORDS, jobVars, runVars, lexVars, domVars, PUNKT, urls, all_keywords, folded, graph, pc>>

\* clean_html_from_url returns False.
CleanFails == Fail("clean failed", "Échec du téléchargement/nettoyage")

\* clean_html_from_url returns True and the cleaned file is not there.
FileMissing == Fail("file missing", "Échec du téléchargement/nettoyage")

\* clean_html_from_url raises FileNotFoundError: the cleaning script is missing.
CleanRaises == Fail("script missing", "Script clean_html.py introuvable: scrap_clean/clean_html.py")

\* analyze_html raises: the cleaned file cannot be read.
AnalyzeRaises == Fail("analyze raised", "'utf-8' codec can't decode byte 0xe9")

\* The page is downloaded, cleaned and analysed.
AnalyzeOk ==
    /\ pc = "loop"
    /\ Len(all_data) < Len(urls)
    /\ \E page \in Pages :
          /\ analyses' = Append(analyses, Analysis(page))
          /\ all_data' = Append(all_data, Flatten(analyses'[Len(analyses')], page, CurrentUrl))
    /\ UNCHANGED <<STOPWORDS, jobVars, runVars, lexVars, domVars, PUNKT, urls, all_keywords, folded, graph, pc>>

\* The loop is over and there is no record: process_urls returns.
NothingToExport ==
    /\ pc = "loop"
    /\ Len(all_data) = Len(urls)
    /\ all_data = <<>>
    /\ pc' = "returned"
    /\ UNCHANGED <<STOPWORDS, jobVars, runVars, lexVars, domVars, PUNKT, urls, all_data, analyses, all_keywords, folded, graph>>

\* A mutation of StartAggregation: aggregate_keywords is called as soon as
\* there is a record.
StartAggregationEarly ==
    /\ pc = "loop"
    /\ all_data # <<>>
    /\ pc' = "aggregate"
    /\ UNCHANGED <<STOPWORDS, jobVars, runVars, lexVars, domVars, PUNKT, urls, all_data, analyses, all_keywords, folded, graph>>

\* The loop is over: the records are written and aggregate_keywords is called.
StartAggregation ==
    /\ pc = "loop"
    /\ Len(all_data) = Len(urls)
    /\ all_data # <<>>
    /\ pc' = "aggregate"
    /\ UNCHANGED <<STOPWORDS, jobVars, runVars, lexVars, domVars, PUNKT, urls, all_data, analyses, all_keywords, folded, graph>>

\* A mutation of AggregateRecord: the frequency field is taken out of the
\* record as it is read.
AggregateRecordConsuming ==
    /\ pc = "aggregate"
    /\ folded < Len(all_data)
    /\ all_keywords' = FoldRecord(all_keywords, all_data[folded + 1])
    /\ all_data' = [all_data EXCEPT ![folded + 1].Frequences = ""]
    /\ folded' = folded + 1
    /\ UNCHANGED <<STOPWORDS, jobVars, runVars, lexVars, domVars, PUNKT, urls, analyses, graph, pc>>

\* One turn of aggregate_keywords' loop.
AggregateRecord ==
    /\ pc = "aggregate"
    /\ folded < Len(all_data)
    /\ all_keywords' = FoldRecord(all_keywords, all_data[folded + 1])
    /\ folded' = folded + 1
    /\ UNCHANGED <<STOPWORDS, jobVars, runVars, lexVars, domVars, PUNKT, urls, all_data, analyses, graph, pc>>

\* aggregate_keywords returns.
AggregationDone ==
    /\ pc = "aggregate"
    /\ folded = Len(all_data)
    /\ pc' = "visualize"
    /\ UNCHANGED <<STOPWORDS, jobVars, runVars, lexVars, domVars, PUNKT, urls, all_data, analyses, all_keywords, folded, graph>>

\* generate_visualizations builds the co-occurrence graph.
BuildGraph ==
    /\ pc = "visualize"
    /\ LET top_keywords_list == KeyList(most_common(all_keywords, TOP_N))
       IN  graph' = [nodes |-> top_keywords_list,
                     edges |-> Cooccurrences(all_data, top_keywords_list, <<>>)]
    /\ pc' = "done"
    /\ UNCHANGED <<STOPWORDS, jobVars, runVars, lexVars, domVars, PUNKT, urls, all_data, analyses, all_keywords, folded>>

\* generate_visualizations without matplotlib or networkx: no graph is built.
SkipGraph ==
    /\ pc = "visualize"
    /\ pc' = "done_no_graph"
    /\ UNCHANGED <<STOPWORDS, jobVars, runVars, lexVars, domVars, PUNKT, urls, all_data, analyses, all_keywords, folded, graph>>

NextBatch ==
    \/ CleanFails
    \/ FileMissing
    \/ CleanRaises
    \/ AnalyzeRaises
    \/ AnalyzeOk
    \/ NothingToExport
    \/ StartAggregation
    \/ AggregateRecord
    \/ AggregationDone
    \/ BuildGraph
    \/ SkipGraph

SpecBatch == InitBatch /\ [][NextBatch]_vars

-----------------------------------------------------------------------------
(* main of batch_analyse: process_urls inside try/finally, and log.txt. *)

\* main has read at least one URL (it leaves before the try otherwise);
\* the temporary directory may be there from an earlier run.
InitRun ==
    /\ STOPWORDS \in {NLTK_FRENCH, {}}
    /\ IdleLex
    /\ IdleDom
    /\ IdleJobs
    /\ PUNKT \in BOOLEAN
    /\ \E n \in 1..MaxUrls : urls = SubSeq(UrlList, 1, n)
    /\ all_data = <<>>
    /\ analyses = <<>>
    /\ all_keywords = <<>>
    /\ folded = 0
    /\ graph = [nodes |-> <<>>, edges |-> <<>>]
    /\ keep_temp \in BOOLEAN
    /\ temp_exists \in BOOLEAN
    /\ log_pages = 0
    /\ pc = "start"

\* process_urls makes its two directories before the loop.
MakeDirs ==
    /\ pc = "start"
    /\ temp_exists' = TRUE
    /\ pc' = "loop"
    /\ UNCHANGED <<STOPWORDS, jobVars, lexVars, domVars, PUNKT, urls, all_data, analyses, all_keywords, folded, graph, keep_temp, log_pages>>

\* The places where process_urls lets an exception out: making the
\* directories, opening analyse_complete.csv, writing analyse_globale.csv.
RaisePoint ==
    \/ pc = "start"
    \/ pc = "loop" /\ Len(all_data) = Len(urls)
    \/ pc = "aggregate" /\ folded = Len(all_data)

ProcessRaises ==
    /\ RaisePoint
    /\ pc' = "raised"
    /\ UNCHANGED <<STOPWORDS, jobVars, runVars, lexVars, domVars, PUNKT, urls, all_data, analyses, all_keywords, folded, graph>>

\* Step 8 of process_urls: the summary file, after which it returns.
WriteLog ==
    /\ pc \in {"done", "done_no_graph"}
    /\ log_pages' = Len(all_data)
    /\ pc' = "logged"
    /\ UNCHANGED <<STOPWORDS, jobVars, lexVars, domVars, PUNKT, urls, all_data, analyses, all_keywords, folded, graph, keep_temp, temp_exists>>

\* A mutation of Finally: the directory is removed after a normal return
\* only, as a statement after the call would do.
CleanupAfterReturn ==
    /\ pc \in {"logged", "raised"}
    /\ temp_exists' = IF ~keep_temp /\ pc = "logged" THEN FALSE ELSE temp_exists
    /\ pc' = IF pc = "raised" THEN "failed" ELSE "finished"
    /\ UNCHANGED <<STOPWORDS, jobVars, lexVars, domVars, PUNKT, urls, all_data, analyses, all_keywords, folded, graph, keep_temp, log_pages>>

\* The finally clause of main.
Finally ==
    /\ pc \in {"logged", "raised"}
    /\ temp_exists' = IF ~keep_temp /\ temp_exists THEN FALSE ELSE temp_exists
    /\ pc' = IF pc = "raised" THEN "failed" ELSE "finished"
    /\ UNCHANGED <<STOPWORDS, jobVars, lexVars, domVars, PUNKT, urls, all_data, analyses, all_keywords, folded, graph, keep_temp, log_pages>>

NextRun ==
    \/ MakeDirs
    \/ CleanFails
    \/ FileMissing
    \/ CleanRaises
    \/ AnalyzeRaises
    \/ AnalyzeOk
    \/ StartAggregation
    \/ AggregateRecord
    \/ AggregationDone
    \/ BuildGraph
    \/ SkipGraph
    \/ ProcessRaises
    \/ WriteLog
    \/ Finally

SpecRun == InitRun /\ [][NextRun]_vars

\* The URLs whose download, cleaning and analysis all succeeded.
Succeeded == {i \in 1..Len(analyses) : analyses[i].ok}

\* C25: the number log.txt gives as pages handled with success is the number
\* of URLs whose download, cleaning and analysis all succeeded; the error
\* placeholders are not counted.
C25_LogCountsSuccesses ==
    pc = "logged" => log_pages = Cardinality(Succeeded)

\* What the code writes: the number of records, placeholders included,
\* which is the number of URLs.
C25_LogCountsRecords ==
    pc = "logged" => log_pages = Len(urls)

\* main has finished: process_urls returned or raised, and the finally
\* clause has run.
MainFinished == pc \in {"finished", "failed"}

\* C26: without --keep-temp the temporary directory does not exist once main
\* has finished, whether process_urls returned or raised; with --keep-temp no
\* step ever deletes it.
C26_TempDirRemovedUnlessKept ==
    /\ [](MainFinished /\ ~keep_temp => ~temp_exists)
    /\ [][keep_temp /\ temp_exists => temp_exists']_vars

\* process_urls raised after the directory was made and pages were analysed,
\* and the directory is gone.
C26_Witness ==
    /\ pc = "failed"
    /\ ~keep_temp
    /\ ~temp_exists
    /\ all_data # <<>>

-----------------------------------------------------------------------------
(* aggregate_keywords over records of any origin. *)

\* A record with the three fields aggregate_keywords reads.
Row(url, keywords, frequencies, phrases) ==
    [ErrorRecordUnmarked(url, "Page") EXCEPT
        !.MotsCles = keywords, !.Frequences = frequencies, !.Phrases = phrases]

\* Records aggregate_keywords may be given: one as analyze_html writes it, two
\* whose frequency field is not a literal (cut short, or a bare name), one
\* with an empty counter, and the placeholder of a URL that failed.
FoldRows ==
    { Row("https://a.fr/", "avis | site", "{'avis': 2, 'site': 1}", "Les avis du site."),
      Row("https://b.fr/", "avis | prix", "{'avis': 2, 'pri", "Voir les prix."),
      Row("https://c.fr/", "", "nan", "Tous les prix du site!"),
      Row("https://e.fr/", "prix", "{}", ""),
      ErrorRecord("https://d.fr/", "timeout") }

\* aggregate_keywords is called with a list of such records.
InitFold ==
    /\ STOPWORDS = NLTK_FRENCH
    /\ IdleLex
    /\ IdleDom
    /\ IdleJobs
    /\ IdleRun
    /\ PUNKT = TRUE
    /\ \E n \in 1..MaxUrls : all_data \in [1..n -> FoldRows]
    /\ urls = List([i \in 1..Len(all_data) |-> all_data[i].URL])
    /\ analyses = <<>>
    /\ all_keywords = <<>>
    /\ folded = 0
    /\ graph = [nodes |-> <<>>, edges |-> <<>>]
    /\ pc = "aggregate"

NextFold ==
    \/ AggregateRecord
    \/ AggregationDone
    \/ BuildGraph
    \/ SkipGraph

SpecFold == InitFold /\ [][NextFold]_vars

\* The frequency field of the record is one literal_eval is tried on, and
\* it raises.
Unparseable(data) ==
    /\ data.Frequences # ""
    /\ data.Frequences # "{}"
    /\ ~literal_eval(data.Frequences).ok

\* The turn of the loop that folds a record whose frequency field does not
\* parse.
FoldsUnparseable ==
    /\ pc = "aggregate"
    /\ folded' = folded + 1
    /\ Unparseable(all_data[folded + 1])

\* C27: a record whose frequency field cannot be parsed loses its n-gram
\* counts only: its dominant keywords and its sentence words are counted, 1
\* each, and the fold goes on with the next record.
C27_OnlyNgramCountsLost ==
    [][FoldsUnparseable =>
         all_keywords' = FoldPhrases(FoldKeywords(all_keywords, all_data[folded + 1]),
                                     all_data[folded + 1])]_vars

\* What the code does for such a record: the dominant keywords are counted,
\* the sentence words are not, and the fold goes on.
C27_SentenceWordsLostToo ==
    [][FoldsUnparseable =>
         all_keywords' = FoldKeywords(all_keywords, all_data[folded + 1])]_vars

\* The tokens of the term are no stop words.
StopWordFree(key) == Range(TermTokens(key)) \cap STOPWORDS_EXTENDED = {}

\* C28: no key of the ranking aggregate_keywords returns is a stop word or
\* holds one as a token, whichever contribution brought it in.
C28_RankingFreeOfStopWords ==
    pc = "visualize" => \A key \in Keys(all_keywords) : StopWordFree(key)

\* The two contributions that come from the filtered n-gram tables bring no
\* stop word in: the dominant keywords and the keys of the frequency field.
C28_OnlySentenceWordsBringStopWords ==
    pc = "visualize" =>
        \A i \in 1..Len(all_data) : \A key \in PageKeywords(all_data[i]) :
            StopWordFree(key)

\* C29: for every record analyze_html produced, the decoding of
\* aggregate_keywords gives back what was encoded: the dominant keywords
\* field, split on the bar and stripped, is the top-K list, same terms in
\* the same order, and the frequency field, literal-evaluated, is the
\* combined counter with every term and count unchanged.
C29_DecodingRecoversEncoded ==
    pc = "loop" =>
        \A i \in 1..Len(all_data) :
            analyses[i].ok =>
                /\ BarList(all_data[i].MotsCles) = analyses[i].top20
                /\ literal_eval(all_data[i].Frequences)
                     = [ok |-> TRUE, dict |-> analyses[i].top_keywords]

\* A record of a page whose terms hold an apostrophe, with more terms in the
\* counter than in the top-K list, has been written.
C29_Witness ==
    /\ pc = "loop"
    /\ \E i \in 1..Len(all_data) :
          /\ analyses[i].ok
          /\ "l'eau-de-vie" \in Range(analyses[i].top20)
          /\ Len(analyses[i].top_keywords) > Len(analyses[i].top20)
          /\ Len(analyses[i].top20) = TOP_K

-----------------------------------------------------------------------------
(* Properties of process_urls and of the aggregation. *)

\* The fields of a record other than its URL and its title.
OtherFields(data) ==
    <<data.H1, data.H2, data.H3, data.Meta, data.Ancres, data.MotsCles,
      data.Ngrams, data.Frequences, data.Liens, data.Phrases, data.Extrait>>

\* C8: whatever the outcome of each URL, the batch holds one record per URL
\* handled so far, in input order, and one per input URL once the loop is
\* over; the record of a failed URL carries its URL, a title that begins
\* "ERREUR:" and empty values in every other field.
C8_OneRecordPerUrl ==
    /\ Len(all_data) <= Len(urls)
    /\ Len(analyses) = Len(all_data)
    /\ pc \notin {"loop", "idle"} => Len(all_data) = Len(urls)
    /\ \A i \in 1..Len(all_data) :
          /\ all_data[i].URL = urls[i]
          /\ ~analyses[i].ok =>
                /\ StartsWith(all_data[i].Title, "ERREUR:")
                /\ \A f \in 1..Len(OtherFields(all_data[i])) : OtherFields(all_data[i])[f] = ""

\* C8's case: a URL whose cleaned file was missing, the next URL analysed, and
\* the loop over.
C8_Witness ==
    /\ pc = "aggregate"
    /\ Len(all_data) = 2
    /\ analyses[1].outcome = "file missing"
    /\ analyses[2].ok
    /\ all_data[2].MotsCles # ""

RECURSIVE Sum(_)
Sum(ints) == IF ints = <<>> THEN 0 ELSE Head(ints) + Sum(Tail(ints))

\* The counted words of the extracted sentences of a document.
SentenceWords(a) == Concat(List([i \in 1..Len(a.phrases) |-> PhraseWords(a.phrases[i])]))

\* What a document adds to the count of a term: 1 if the term is one of its
\* dominant keywords, its combined n-gram count of the term, and the number of
\* occurrences of the term among the words of its extracted sentences.
Contribution(a, term) ==
    (IF term \in Range(a.top20) THEN 1 ELSE 0)
      + Count(a.top_keywords, term)
      + Times(SentenceWords(a), term)

\* The terms the documents contribute to.
ContributedTerms ==
    UNION {Keys(analyses[d].top_keywords) \cup Range(SentenceWords(analyses[d]))
             : d \in 1..Len(analyses)}

Aggregated == pc \in {"visualize", "done", "done_no_graph"}

\* C3: the Global Ranking gives each term the sum, over the documents, of what
\* each document contributes to it.
C3_RankingIsSumOfContributions ==
    Aggregated =>
        \A term \in Keys(all_keywords) \cup ContributedTerms :
            Count(all_keywords, term)
                = Sum(List([d \in 1..Len(analyses) |-> Contribution(analyses[d], term)]))

\* No extracted sentence of the batch holds the field delimiter.
NoBarInSentences ==
    \A d \in 1..Len(analyses) : \A i \in 1..Len(analyses[d].phrases) :
        "|" \notin Chars(analyses[d].phrases[i])

\* The statement of C3 for the batches whose sentences hold no "|".
C3_HoldsWithoutBar == NoBarInSentences => C3_RankingIsSumOfContributions

\* The keyword set of a document: its dominant keywords and the keys of its
\* frequency table.
DocKeywords(a) == Range(a.top20) \cup Keys(a.top_keywords)

\* The documents whose keyword set holds both terms.
DocsWithBoth(a, b) ==
    {d \in 1..Len(analyses) : a \in DocKeywords(analyses[d]) /\ b \in DocKeywords(analyses[d])}

\* C4: the nodes are the top-30 terms of the final ranking, and for every pair
\* of distinct nodes the weight of their edge is the number of documents whose
\* keyword set holds both; there is no edge when that number is 0.
C4_EdgeWeightCountsDocuments ==
    pc = "done" =>
        /\ Len(graph.nodes) = Min(TOP_N, Len(all_keywords))
        /\ Range(graph.nodes) \subseteq Keys(all_keywords)
        /\ \A e \in DOMAIN graph.edges : e \subseteq Range(graph.nodes) /\ Cardinality(e) = 2
        /\ \A a, b \in Range(graph.nodes) :
              a # b =>
                  IF DocsWithBoth(a, b) = {}
                  THEN {a, b} \notin DOMAIN graph.edges
                  ELSE /\ {a, b} \in DOMAIN graph.edges
                       /\ graph.edges[{a, b}] = Cardinality(DocsWithBoth(a, b))

\* C4's case: more terms than the graph takes, an edge two documents share, a
\* pair of nodes no document shares, and a document keyword left out of the
\* graph.
C4_Witness ==
    /\ pc = "done"
    /\ Len(all_keywords) > TOP_N
    /\ \E e \in DOMAIN graph.edges : graph.edges[e] = 2
    /\ \E a, b \in Range(graph.nodes) : a # b /\ {a, b} \notin DOMAIN graph.edges
    /\ \E d \in 1..Len(analyses) : ~(DocKeywords(analyses[d]) \subseteq Range(graph.nodes))

\* While the records are folded in, no count falls and no term disappears.
RankingGrows ==
    \A term \in Keys(all_keywords) : Count(all_keywords', term) >= Count(all_keywords, term)

\* The final count of a term is at least what any single record added to it.
AtLeastEachRecord ==
    Aggregated =>
        \A d \in 1..Len(all_data) :
            LET alone == FoldRecord(<<>>, all_data[d])
            IN  \A i \in 1..Len(alone) : Count(all_keywords, alone[i].k) >= alone[i].v

\* C6: the Global Ranking only grows while the documents are folded in, and the
\* final count of every term is at least what any single document contributed.
C6_MonotonicFold == [][RankingGrows]_vars /\ []AtLeastEachRecord

\* C6's case: a second record was folded in and raised the count of a term the
\* first record had counted.
C6_Witness ==
    /\ pc = "aggregate"
    /\ folded = 2
    /\ \E i \in 1..Len(FoldRecord(<<>>, all_data[1])) :
          LET item == FoldRecord(<<>>, all_data[1])[i]
          IN  Count(all_keywords, item.k) > item.v

\* aggregate_keywords or generate_visualizations is running.
Aggregating == pc \in {"aggregate", "visualize"}

\* C18: aggregate_keywords and the construction of the co-occurrence graph
\* only read the records: from the call of aggregate_keywords on, no step
\* changes a field or a value of a record, nor the length or the order of the
\* list.
C18_RecordsOnlyRead == [][Aggregating => all_data' = all_data]_vars

\* C18's case: two analysed records were folded and the graph built from them
\* has an edge.
C18_Witness ==
    /\ pc = "done"
    /\ folded = 2
    /\ Len(all_data) = 2
    /\ \A i \in 1..2 : analyses[i].ok /\ all_data[i].Frequences # "{}"
    /\ all_keywords # <<>>
    /\ graph.edges # <<>>

RECURSIVE FoldAll(_, _)
\* aggregate_keywords' loop over a list of records, from the counter c.
FoldAll(c, records) ==
    IF records = <<>> THEN c ELSE FoldAll(FoldRecord(c, Head(records)), Tail(records))

\* The records in the order a permutation of their places gives.
Reordered(records, perm) == List([i \in 1..Len(records) |-> records[perm[i]]])

\* C19: the counts of the Global Ranking do not depend on the order of the
\* records: when aggregate_keywords has returned, aggregate_keywords over any
\* permutation of the records gives every term the count it has.
C19_CountsIndependentOfOrder ==
    pc = "visualize" =>
        \A perm \in Permutations(1..Len(all_data)) :
            LET other == FoldAll(<<>>, Reordered(all_data, perm))
            IN  \A term \in Keys(all_keywords) \cup Keys(other) :
                    Count(other, term) = Count(all_keywords, term)

\* C19's case: two records that both count a term, of which the second brings
\* terms the first does not have: folded the other way round the ranking
\* lists its terms in another order.
C19_Witness ==
    /\ pc = "visualize"
    /\ Len(all_data) = 2
    /\ Keys(FoldRecord(<<>>, all_data[1])) \cap Keys(FoldRecord(<<>>, all_data[2])) # {}
    /\ Keys(FoldRecord(<<>>, all_data[2])) \ Keys(FoldRecord(<<>>, all_data[1])) # {}
    /\ FoldAll(<<>>, <<all_data[2], all_data[1]>>) # all_keywords

\* The graph before generate_visualizations has built it.
NoGraph == [nodes |-> <<>>, edges |-> <<>>]

\* C20: aggregation starts only when there is a record for every input URL;
\* the records are folded one after the other in input order; the graph's
\* terms are the top 30 of the ranking of all the records, chosen before any
\* edge is added, and every edge joins two of them.
C20_PhasesInOrder ==
    /\ pc = "loop" => folded = 0 /\ all_keywords = <<>>
    /\ pc \in {"aggregate", "visualize", "done", "done_no_graph"} =>
          /\ Len(all_data) = Len(urls)
          /\ \A i \in 1..Len(urls) : all_data[i].URL = urls[i]
    /\ folded <= Len(all_data)
    /\ all_keywords = FoldAll(<<>>, SubSeq(all_data, 1, folded))
    /\ pc \in {"visualize", "done", "done_no_graph"} => folded = Len(all_data)
    /\ pc # "done" => graph = NoGraph
    /\ pc = "done" =>
          /\ graph.nodes = KeyList(most_common(all_keywords, TOP_N))
          /\ \A e \in DOMAIN graph.edges : e \subseteq Range(graph.nodes)

\* C20's case: the record of a failed URL and the record of an analysed one:
\* the first was folded while the second waited, and later the graph was built
\* with more terms in the ranking than it takes.
C20_Witness ==
    /\ pc = "done"
    /\ Len(urls) = 2
    /\ ~analyses[1].ok /\ analyses[2].ok
    /\ Len(all_keywords) > TOP_N
    /\ Len(graph.nodes) = TOP_N
    /\ graph.edges # <<>>

\* The co-occurrence relation generate_visualizations builds from the
\* records: the set of the top terms of their ranking, and the weighted
\* edges between them.
GraphOf(records) ==
    LET top_keywords_list == KeyList(most_common(FoldAll(<<>>, records), TOP_N))
    IN  [nodes |-> Range(top_keywords_list),
         edges |-> Cooccurrences(records, top_keywords_list, <<>>)]

\* C30: the co-occurrence relation (nodes, edges, weights) is the same for
\* every permutation of the records, ties at the cutoff included.
C30_GraphIndependentOfOrder ==
    pc = "done" =>
        \A perm \in Permutations(1..Len(all_data)) :
            GraphOf(Reordered(all_data, perm))
                = [nodes |-> Range(graph.nodes), edges |-> graph.edges]

\* Without more terms than the graph takes, no cutoff is made and the
\* relation is the same in every order.
C30_SameWithoutCutoff ==
    (pc = "done" /\ Len(all_keywords) <= TOP_N) =>
        \A perm \in Permutations(1..Len(all_data)) :
            GraphOf(Reordered(all_data, perm))
                = [nodes |-> Range(graph.nodes), edges |-> graph.edges]

-----------------------------------------------------------------------------
(* BeautifulSoup trees. *)

(* A tree is the sequence of its nodes in document order. A node names its  *)
(* parent by its place in the sequence (0: the document itself). Its kind   *)
(* is "tag", "text" or "comment"; a tag has a name, its attributes (a       *)
(* function from attribute names to values) and the string it directly      *)
(* holds, if any; a text or a comment has its text.                          *)

NoAttrs == <<>>

Tag(name, attrs, string) ==
    [kind |-> "tag", name |-> name, attrs |-> attrs, text |-> string, parent |-> 0]

TextNode(string) ==
    [kind |-> "text", name |-> "", attrs |-> NoAttrs, text |-> string, parent |-> 0]

CommentNode(string) ==
    [kind |-> "comment", name |-> "", attrs |-> NoAttrs, text |-> string, parent |-> 0]

\* tag.get(key, '')
Get(tag, key) == IF key \in DOMAIN tag.attrs THEN tag.attrs[key] ELSE ""

RECURSIVE IsUnder(_, _, _)
\* The node i is the node r or lies below it.
IsUnder(tree, i, r) ==
    i = r \/ (i > r /\ tree[i].parent # 0 /\ IsUnder(tree, tree[i].parent, r))

\* The nodes of the subtrees of the given roots.
Subtree(tree, roots) == {i \in 1..Len(tree) : \E r \in roots : IsUnder(tree, i, r)}

\* The tree without the given nodes, the nodes left keeping their order and
\* their parents.
Without(tree, dead) ==
    LET kept     == Sorted((1..Len(tree)) \ dead)
        place(j) == Cardinality({k \in Range(kept) : k <= j})
    IN  List([n \in 1..Len(kept) |->
                [tree[kept[n]] EXCEPT !.parent = IF @ = 0 THEN 0 ELSE place(@)]])

\* tag.decompose() on every root: the roots and all they hold leave the tree.
Decompose(tree, roots) == Without(tree, Subtree(tree, roots))

\* soup.find_all(names): the tags of these names.
find_all(tree, names) ==
    {i \in 1..Len(tree) : tree[i].kind = "tag" /\ tree[i].name \in names}

\* The strings get_text reads below the node i (comments are not read).
Strings(tree, i) ==
    {j \in Subtree(tree, {i}) : tree[j].kind # "comment" /\ tree[j].text # ""}

-----------------------------------------------------------------------------
(* clean_html.py: clean_soup *)

\* A mutation of looks_like_stylesheet_link: the as attribute is not read.
looks_like_stylesheet_link_without_as(tag) ==
    /\ tag.name = "link"
    /\ LET rel_text == Lower(Join(Split(Get(tag, "rel")), " "))
       IN  \/ Finds(rel_text, "stylesheet") # {}
           \/ Finds(rel_text, "import") # {}
           \/ EndsWith(Lower(Get(tag, "href")), ".css")

\* looks_like_stylesheet_link; rel is the list of the words of the attribute.
looks_like_stylesheet_link(tag) ==
    /\ tag.name = "link"
    /\ LET rel_text == Lower(Join(Split(Get(tag, "rel")), " "))
           href_l   == Lower(Get(tag, "href"))
       IN  \/ Finds(rel_text, "stylesheet") # {}
           \/ Finds(rel_text, "import") # {}
           \/ EndsWith(href_l, ".css")
           \/ Lower(Get(tag, "as")) = "style"

\* The comments are extracted.
RemoveComments(tree) == Without(tree, {i \in 1..Len(tree) : tree[i].kind = "comment"})

\* Every tag of the name is decomposed.
RemoveNamed(tree, name) == Decompose(tree, find_all(tree, {name}))

\* script, iframe, embed and object, one name after the other.
RemoveEmbedded(tree) ==
    RemoveNamed(RemoveNamed(RemoveNamed(RemoveNamed(tree, "script"), "iframe"), "embed"), "object")

RemoveStylesheetLinks(tree) ==
    Decompose(tree, {i \in find_all(tree, {"link"}) : looks_like_stylesheet_link(tree[i])})

\* A mutation of RemoveMetaRefresh: http-equiv is compared as it is written.
RemoveMetaRefreshExact(tree) ==
    Decompose(tree, {i \in find_all(tree, {"meta"}) : Get(tree[i], "http-equiv") = "refresh"})

RemoveMetaRefresh(tree) ==
    Decompose(tree, {i \in find_all(tree, {"meta"}) : Lower(Get(tree[i], "http-equiv")) = "refresh"})

\* a.lower().startswith('on')
IsHandler(a) == StartsWith(Lower(a), "on")

\* A mutation of CleanAttrs: an img is skipped whole when the images are kept.
CleanAttrsSkippingImg(tag, keep) ==
    IF keep /\ tag.name = "img" THEN tag
    ELSE [tag EXCEPT !.attrs = [a \in {b \in DOMAIN tag.attrs : ~StartsWith(Lower(b), "on") /\ b # "style"}
                                    |-> tag.attrs[a]]]

\* The attribute pass on one tag: the handlers go; style goes unless the tag
\* is an img and the images are kept.
CleanAttrs(tag, keep) ==
    LET drop == {a \in DOMAIN tag.attrs :
                    IsHandler(a) \/ (a = "style" /\ ~(keep /\ tag.name = "img"))}
    IN  [tag EXCEPT !.attrs = [a \in (DOMAIN tag.attrs) \ drop |-> tag.attrs[a]]]

CleanAttributes(tree, keep) ==
    List([i \in 1..Len(tree) |->
            IF tree[i].kind = "tag" THEN CleanAttrs(tree[i], keep) ELSE tree[i]])

\* The tags whose presence keeps a div.
KEPT_IN_DIV == {"img", "iframe", "embed", "object"}

RECURSIVE DivPass(_, _, _)
\* The loop over the divs listed before the pass, in document order: dead are
\* the nodes decomposed so far. A div is kept if get_text(strip=True) is not
\* empty or if it holds an img, iframe, embed or object; a div decomposed with
\* an enclosing div holds nothing any more.
DivPass(tree, divs, dead) ==
    IF divs = <<>> THEN Without(tree, dead)
    ELSE LET div      == Head(divs)
             live     == Subtree(tree, {div}) \ dead
             has_text == \E j \in live : tree[j].kind # "comment" /\ Strip(tree[j].text) # ""
             has_kept == \E j \in live \ {div} :
                            tree[j].kind = "tag" /\ tree[j].name \in KEPT_IN_DIV
         IN  DivPass(tree, Tail(divs),
                     IF has_text \/ has_kept THEN dead ELSE dead \cup Subtree(tree, {div}))

\* A mutation of RemoveEmptyDivs: a div is kept for its text alone.
RemoveEmptyDivsTextOnly(tree) ==
    Decompose(tree, {i \in find_all(tree, {"div"}) :
                        \A j \in Subtree(tree, {i}) : Strip(tree[j].text) = ""})

RemoveEmptyDivs(tree) == DivPass(tree, Sorted(find_all(tree, {"div"})), {})

\* A mutation of clean_soup: the empty divs are removed first.
clean_soup_divs_first(tree, keep) ==
    CleanAttributes(
        RemoveMetaRefresh(
            RemoveStylesheetLinks(
                RemoveNamed(RemoveEmbedded(RemoveComments(RemoveEmptyDivs(tree))), "style"))),
        keep)

\* clean_soup(soup, keep_images): the tree it leaves.
clean_soup(tree, keep) ==
    RemoveEmptyDivs(
        CleanAttributes(
            RemoveMetaRefresh(
                RemoveStylesheetLinks(
                    RemoveNamed(RemoveEmbedded(RemoveComments(tree)), "style"))),
            keep))

\* The tags that hold other nodes.
Containers == {"div", "nav", "footer", "form"}

\* Where the next node of a document can hang: the document itself or an open
\* container, that is the last node or one of the nodes above it.
OpenParents(tree) ==
    {0} \cup {i \in 1..Len(tree) :
                 IsUnder(tree, Len(tree), i) /\ tree[i].kind = "tag" /\ tree[i].name \in Containers}

\* The nodes of the documents handed to clean_soup.
CleanNodes ==
    {Tag("div", NoAttrs, ""),
     Tag("div", ("style" :> "color:red") @@ ("onclick" :> "go()") @@ ("id" :> "main"), ""),
     Tag("img", ("src" :> "x.png") @@ ("style" :> "width:1px") @@ ("onload" :> "go()"), ""),
     TextNode("Bonjour"),
     TextNode(" \n"),
     CommentNode("note"),
     Tag("script", ("src" :> "a.js"), ""),
     Tag("iframe", ("src" :> "https://b.fr/"), ""),
     Tag("embed", ("src" :> "a.swf"), ""),
     Tag("object", ("data" :> "a.pdf"), ""),
     Tag("style", NoAttrs, "p {}"),
     Tag("link", ("rel" :> "Stylesheet") @@ ("href" :> "a.css"), ""),
     Tag("link", ("rel" :> "icon") @@ ("href" :> "/f.ico"), ""),
     Tag("meta", ("http-equiv" :> "Refresh") @@ ("content" :> "0"), "")}

IdleLexBatch == IdleLex /\ IdleBatch /\ IdleJobs /\ IdleRun /\ STOPWORDS = {}

InitClean ==
    /\ IdleLexBatch
    /\ soup = <<>>
    /\ soup_in = <<>>
    /\ keep_images = FALSE
    /\ passes = 0
    /\ page_url = ""
    /\ internal_anchors = <<>>
    /\ page_text = ""
    /\ internal_links = <<>>
    /\ dom_pc = "build"

\* The parser adds a node to the document.
ParseNode(nodes) ==
    /\ dom_pc = "build"
    /\ Len(soup) < MaxNodes
    /\ \E node \in nodes : \E p \in OpenParents(soup) :
          soup' = Append(soup, [node EXCEPT !.parent = p])
    /\ UNCHANGED <<STOPWORDS, jobVars, runVars, lexVars, batchVars, soup_in, keep_images, passes, page_url,
                   internal_anchors, page_text, internal_links, dom_pc>>

ParseForClean == ParseNode(CleanNodes)

\* main: clean_soup(soup, keep_images=args.keep_images)
CleanFirst ==
    /\ dom_pc = "build"
    /\ \E keep \in BOOLEAN :
          /\ keep_images' = keep
          /\ soup' = clean_soup(soup, keep)
    /\ soup_in' = soup
    /\ passes' = 1
    /\ dom_pc' = "cleaned"
    /\ UNCHANGED <<STOPWORDS, jobVars, runVars, lexVars, batchVars, page_url, internal_anchors, page_text,
                   internal_links>>

\* clean_soup applied once more to the tree it left, with the same keep_images.
CleanAgain ==
    /\ dom_pc = "cleaned"
    /\ passes < MaxPasses
    /\ soup' = clean_soup(soup, keep_images)
    /\ passes' = passes + 1
    /\ UNCHANGED <<STOPWORDS, jobVars, runVars, lexVars, batchVars, soup_in, keep_images, page_url,
                   internal_anchors, page_text, internal_links, dom_pc>>

NextClean == ParseForClean \/ CleanFirst \/ CleanAgain

SpecClean == InitClean /\ [][NextClean]_vars

\* The nodes of documents of link elements, for the rule of the links.
LinkNodes ==
    {Tag("div", NoAttrs, ""),
     TextNode("Bonjour"),
     Tag("link", ("rel" :> "Stylesheet") @@ ("href" :> "a.css"), ""),
     Tag("link", ("rel" :> "icon") @@ ("href" :> "/f.ico"), ""),
     Tag("link", ("rel" :> "Import") @@ ("href" :> "/c.html"), ""),
     Tag("link", ("rel" :> "alternate") @@ ("href" :> "/B.CSS"), ""),
     Tag("link", ("rel" :> "preload") @@ ("href" :> "/f.woff") @@ ("as" :> "Style"), ""),
     Tag("link", ("href" :> "/d.html"), "")}

ParseLinks == ParseNode(LinkNodes)

NextLinks == ParseLinks \/ CleanFirst \/ CleanAgain

\* clean_soup over the documents of links.
SpecLinks == InitClean /\ [][NextLinks]_vars

\* The nodes of documents of the elements get_visible_text or clean_soup
\* removes by name.
ProfileNodes ==
    {TextNode("Bonjour"),
     Tag("script", ("src" :> "a.js"), ""),
     Tag("style", NoAttrs, "p {}"),
     Tag("noscript", NoAttrs, "Activez JavaScript"),
     Tag("nav", NoAttrs, ""),
     Tag("footer", NoAttrs, ""),
     Tag("form", NoAttrs, ""),
     Tag("iframe", ("src" :> "https://b.fr/"), ""),
     Tag("embed", ("src" :> "a.swf"), ""),
     Tag("object", ("data" :> "a.pdf"), "")}

ParseProfiles == ParseNode(ProfileNodes)

NextProfiles == ParseProfiles \/ CleanFirst \/ CleanAgain

\* clean_soup over the documents of these elements.
SpecProfiles == InitClean /\ [][NextProfiles]_vars

\* C5: clean_soup applied to a tree it has already cleaned, with the same
\* keep_images, removes no node and no attribute: the tree is left as it was.
C5_CleanSoupIdempotent == [][dom_pc = "cleaned" => soup' = soup]_vars

\* C5's case: the first pass removed a div and kept another, and the second
\* pass ran.
C5_Witness ==
    /\ passes = 2
    /\ find_all(soup, {"div"}) # {}
    /\ Cardinality(find_all(soup, {"div"})) < Cardinality(find_all(soup_in, {"div"}))

\* The tree after the steps of clean_soup that come before the div pass.
BeforeDivPass(tree, keep) ==
    CleanAttributes(
        RemoveMetaRefresh(
            RemoveStylesheetLinks(
                RemoveNamed(RemoveEmbedded(RemoveComments(tree)), "style"))),
        keep)

\* The node i of the tree has no non-whitespace text in its subtree and no
\* img, iframe, embed or object below it.
TextlessAndImageless(tree, i) ==
    /\ \A j \in Subtree(tree, {i}) : tree[j].kind # "comment" => Strip(tree[j].text) = ""
    /\ \A j \in Subtree(tree, {i}) \ {i} :
          ~(tree[j].kind = "tag" /\ tree[j].name \in {"img", "iframe", "embed", "object"})

\* The divs of a tree that satisfy the removal condition.
EmptyDivs(tree) == {i \in find_all(tree, {"div"}) : TextlessAndImageless(tree, i)}

\* C12: the tree clean_soup leaves is the tree after the earlier removals
\* without the divs that satisfy the removal condition there (and what they
\* hold), so a div is removed iff it satisfies it; no div that satisfies it is
\* left. Stated when clean_soup has run once on the parsed document.
C12_DivRemovedIffEmpty ==
    (dom_pc = "cleaned" /\ passes = 1) =>
        LET mid == BeforeDivPass(soup_in, keep_images)
        IN  /\ soup = Without(mid, Subtree(mid, EmptyDivs(mid)))
            /\ EmptyDivs(soup) = {}

\* C12's case: a div that holds an img and no text is retained, and an empty
\* div next to it is removed.
C12_Witness ==
    /\ dom_pc = "cleaned"
    /\ passes = 1
    /\ Len(soup_in) = 3
    /\ soup_in[1].name = "div" /\ soup_in[2].name = "img" /\ soup_in[2].parent = 1
    /\ soup_in[3].name = "div" /\ soup_in[3].parent = 0
    /\ Len(soup) = 2
    /\ soup[1].name = "div" /\ soup[2].name = "img"

\* The tree the attribute pass of clean_soup starts from.
BeforeAttributePass(tree) ==
    RemoveMetaRefresh(
        RemoveStylesheetLinks(
            RemoveNamed(RemoveEmbedded(RemoveComments(tree)), "style")))

\* The attribute name starts with "on", in any case.
StartsWithOn(a) == Len(a) >= 2 /\ Lower(SubSeq(a, 1, 2)) = "on"

\* The images of a tree: where they are and under what.
Images(tree) == {<<i, tree[i].parent>> : i \in find_all(tree, {"img"})}

\* C13: after clean_soup no element has an attribute whose name starts with
\* "on", with images kept or not; none has a style attribute, but an img when
\* the images are kept; the attribute pass leaves every img in the tree.
C13_NoHandlersNoStyle ==
    dom_pc = "cleaned" =>
        /\ \A i \in 1..Len(soup) : \A a \in DOMAIN soup[i].attrs : ~StartsWithOn(a)
        /\ \A i \in 1..Len(soup) :
              "style" \in DOMAIN soup[i].attrs => keep_images /\ soup[i].name = "img"
        /\ passes = 1 =>
           LET before == BeforeAttributePass(soup_in)
               after  == BeforeDivPass(soup_in, keep_images)
           IN  Len(after) = Len(before) /\ Images(after) = Images(before)

\* C13's case: the images are kept; a div lost its style and its handler, the
\* img under it lost its handler and kept its style.
C13_Witness ==
    /\ dom_pc = "cleaned"
    /\ keep_images
    /\ Len(soup_in) = 2 /\ Len(soup) = 2
    /\ {"style", "onclick"} \subseteq DOMAIN soup_in[1].attrs
    /\ {"style", "onload"} \subseteq DOMAIN soup_in[2].attrs
    /\ DOMAIN soup[1].attrs = {"id"}
    /\ soup[2].name = "img" /\ DOMAIN soup[2].attrs = {"src", "style"}

\* C14: after clean_soup, with images kept or not, the tree holds no comment,
\* no script, iframe, embed, object or style element, no link classified as a
\* stylesheet or an import, and no meta whose http-equiv is "refresh" in any
\* case.
C14_NothingActiveLeft ==
    dom_pc = "cleaned" =>
        \A i \in 1..Len(soup) :
            /\ soup[i].kind # "comment"
            /\ soup[i].kind = "tag" =>
                  /\ soup[i].name \notin {"script", "iframe", "embed", "object", "style"}
                  /\ ~looks_like_stylesheet_link(soup[i])
                  /\ ~(soup[i].name = "meta" /\ "http-equiv" \in DOMAIN soup[i].attrs
                        /\ Lower(soup[i].attrs["http-equiv"]) = "refresh")

\* C14's case: a document of a meta written Refresh, an object and a text, of
\* which the text alone is left.
C14_Witness ==
    /\ dom_pc = "cleaned"
    /\ Len(soup_in) = 3
    /\ \E i, j, k \in 1..3 :
          /\ soup_in[i].name = "meta" /\ Get(soup_in[i], "http-equiv") = "Refresh"
          /\ soup_in[j].name = "object"
          /\ soup_in[k].kind = "text" /\ soup_in[k].text = "Bonjour"
    /\ Len(soup) = 1
    /\ soup[1].kind = "text"

\* The text holds the piece somewhere.
Contains(string, piece) ==
    \E i \in 1..(Len(string) - Len(piece) + 1) : SubSeq(string, i, i + Len(piece) - 1) = piece

\* The link elements that stand at the top of the document, in document order.
TopLinks(tree) ==
    SelectSeq(tree, LAMBDA node : node.kind = "tag" /\ node.name = "link" /\ node.parent = 0)

\* The rule as it is worded: rel is read in any case, href and as are read as
\* they are written.
WordedLinkRule(node) ==
    \/ "rel" \in DOMAIN node.attrs /\
          (Contains(Lower(node.attrs["rel"]), "stylesheet") \/ Contains(Lower(node.attrs["rel"]), "import"))
    \/ "href" \in DOMAIN node.attrs /\ EndsWith(node.attrs["href"], ".css")
    \/ "as" \in DOMAIN node.attrs /\ node.attrs["as"] = "style"

\* The rule with rel, href and as all read in any case.
AnyCaseLinkRule(node) ==
    \/ "rel" \in DOMAIN node.attrs /\
          (Contains(Lower(node.attrs["rel"]), "stylesheet") \/ Contains(Lower(node.attrs["rel"]), "import"))
    \/ "href" \in DOMAIN node.attrs /\ EndsWith(Lower(node.attrs["href"]), ".css")
    \/ "as" \in DOMAIN node.attrs /\ Lower(node.attrs["as"]) = "style"

-----------------------------------------------------------------------------
(* analyse_structure_html.py: the steps of analyze_html on the tree. *)

\* The characters of URLs and references, in code order.
Ascii ==
    " !#$%&'()*+,-./" \o Digits \o ":;<=>?@" \o UpperLetters \o "[]^_"
      \o LowerLetters \o "{|}~"

CodeOf == [c \in Chars(Ascii) |-> CHOOSE i \in 1..Len(Ascii) : Ch(Ascii, i) = c]

\* a < b on str: by the first character that differs, else by length.
StrLess(a, b) ==
    LET differ == {i \in 1..Min(Len(a), Len(b)) : Ch(a, i) # Ch(b, i)}
    IN  IF differ = {} THEN Len(a) < Len(b)
        ELSE LET i == CHOOSE i \in differ : \A j \in differ : i <= j
             IN  CodeOf[Ch(a, i)] < CodeOf[Ch(b, i)]

\* sorted(set of str)
SortedStrings(S) ==
    List([k \in 1..Cardinality(S) |->
            CHOOSE x \in S : Cardinality({y \in S : y = x \/ StrLess(y, x)}) = k])

\* The characters of a URL scheme.
SchemeChars == Chars(LowerLetters) \cup Chars(UpperLetters) \cup Chars(Digits) \cup {"+", "-", "."}

\* Where the scheme of a URL ends: the place of its first ":" when only scheme
\* characters come before it, 0 when the URL has no scheme.
SchemeEnd(u) ==
    LET colons == Finds(u, ":")
    IN  IF colons = {} THEN 0
        ELSE LET c == CHOOSE i \in colons : \A j \in colons : i <= j
             IN  IF c > 1 /\ Chars(SubSeq(u, 1, c - 1)) \subseteq SchemeChars
                      /\ Ch(u, 1) \notin Chars(Digits) \cup {"+", "-", "."}
                 THEN c ELSE 0

\* urlparse(u): the scheme, the network location and the rest.
urlparse(u) ==
    LET c     == SchemeEnd(u)
        after == SubSeq(u, c + 1, Len(u))
    IN  IF StartsWith(after, "//")
        THEN LET body == SubSeq(after, 3, Len(after))
                 ends == {i \in 1..Len(body) : Ch(body, i) \in {"/", "?", "#"}}
                 stop == IF ends = {} THEN Len(body) + 1
                         ELSE CHOOSE i \in ends : \A j \in ends : i <= j
             IN  [scheme |-> Lower(SubSeq(u, 1, c - 1)),
                  netloc |-> SubSeq(body, 1, stop - 1),
                  path   |-> SubSeq(body, stop, Len(body))]
        ELSE [scheme |-> Lower(SubSeq(u, 1, c - 1)), netloc |-> "", path |-> after]

\* The schemes a relative reference is resolved under.
USES_RELATIVE == {"http", "https", "ftp", "file"}

\* The path of the base without its last segment.
BaseDir(path) ==
    LET slashes == Finds(path, "/")
    IN  IF slashes = {} THEN "/"
        ELSE SubSeq(path, 1, CHOOSE i \in slashes : \A j \in slashes : j <= i)

\* urljoin(base, href), for a base with a scheme and a network location and a
\* reference without ".", "..", query or fragment.
urljoin(base, href) ==
    LET b == urlparse(base)
        r == urlparse(href)
    IN  IF href = "" THEN base
        ELSE IF SchemeEnd(href) > 0 /\ (r.scheme # b.scheme \/ r.scheme \notin USES_RELATIVE)
        THEN href
        ELSE IF r.netloc # ""
        THEN b.scheme \o "://" \o r.netloc \o r.path
        ELSE IF StartsWith(r.path, "/")
        THEN b.scheme \o "://" \o b.netloc \o r.path
        ELSE b.scheme \o "://" \o b.netloc \o BaseDir(b.path) \o r.path

\* tag.get_text(strip=True): the stripped strings below the node, empty ones
\* left out, put end to end.
StrippedText(tree, i) ==
    LET at    == Sorted(Strings(tree, i))
        parts == List([k \in 1..Len(at) |-> Strip(tree[at[k]].text)])
    IN  Join(SelectSeq(parts, LAMBDA part : part # ""), "")

\* internal_anchors: the text of every a whose href starts with "#".
InternalAnchors(tree) ==
    LET at == Sorted({i \in find_all(tree, {"a"}) : StartsWith(Get(tree[i], "href"), "#")})
    IN  List([k \in 1..Len(at) |-> StrippedText(tree, at[k])])

\* The tags get_visible_text decomposes.
NOT_VISIBLE == {"script", "style", "nav", "footer", "form", "noscript"}

\* The tree get_visible_text leaves.
Pruned(tree) == Decompose(tree, find_all(tree, NOT_VISIBLE))

\* get_visible_text's result on the tree it has pruned: the strings joined by
\* a space, white space normalised.
VisibleText(tree) ==
    LET at == Sorted({j \in 1..Len(tree) : tree[j].kind # "comment" /\ tree[j].text # ""})
    IN  NormalizeSpace(Join(List([k \in 1..Len(at) |-> tree[at[k]].text]), " "))

\* A mutation of extract_internal_links: an href that starts with "#" is not
\* skipped.
extract_internal_links_with_fragments(tree, base_url) ==
    LET hrefs == {Strip(tree[i].attrs["href"]) :
                     i \in {j \in find_all(tree, {"a"}) : "href" \in DOMAIN tree[j].attrs}}
        cands == {href \in hrefs : href # ""}
    IN  SortedStrings(
            IF base_url # ""
            THEN {full \in {urljoin(base_url, href) : href \in cands} :
                     urlparse(full).netloc = urlparse(base_url).netloc}
            ELSE {href \in cands : StartsWith(href, "/")})

\* extract_internal_links(soup, base_url); base_url "" stands for None.
extract_internal_links(tree, base_url) ==
    LET hrefs == {Strip(tree[i].attrs["href"]) :
                     i \in {j \in find_all(tree, {"a"}) : "href" \in DOMAIN tree[j].attrs}}
        cands == {href \in hrefs : href # "" /\ ~StartsWith(href, "#")}
    IN  SortedStrings(
            IF base_url # ""
            THEN {full \in {urljoin(base_url, href) : href \in cands} :
                     urlparse(full).netloc = urlparse(base_url).netloc}
            ELSE {href \in cands : StartsWith(href, "/")})

\* The nodes of the documents handed to analyze_html.
PageNodes ==
    {Tag("div", NoAttrs, ""),
     Tag("nav", NoAttrs, ""),
     Tag("footer", NoAttrs, ""),
     Tag("form", NoAttrs, ""),
     Tag("a", ("href" :> "/about"), "About"),
     Tag("a", ("href" :> "#top"), " Haut "),
     Tag("a", ("href" :> "#bas"), "Bas"),
     Tag("a", ("href" :> "https://a.fr/x"), "X"),
     Tag("a", ("href" :> "https://b.fr/"), "B"),
     Tag("a", ("href" :> "contact.html"), "Contact"),
     Tag("a", ("href" :> " /tarifs "), "Tarifs"),
     Tag("a", ("href" :> "mailto:x@a.fr"), "Mail"),
     Tag("a", NoAttrs, "Nu"),
     TextNode("Bonjour")}

\* The url analyze_html is given: none, or the URL of the page.
PageUrls == {"", "https://a.fr/dir/page"}

InitPage == InitClean

ParseForAnalyze == ParseNode(PageNodes)

\* analyze_html from the anchors to the internal links.
AnalyzeTree ==
    /\ dom_pc = "build"
    /\ soup_in' = soup
    /\ internal_anchors' = InternalAnchors(soup)
    /\ soup' = Pruned(soup)
    /\ page_text' = VisibleText(soup')
    /\ \E u \in PageUrls :
          /\ page_url' = u
          /\ internal_links' = extract_internal_links(soup', u)
    /\ dom_pc' = "analyzed"
    /\ UNCHANGED <<STOPWORDS, jobVars, runVars, lexVars, batchVars, keep_images, passes>>

NextPage == ParseForAnalyze \/ AnalyzeTree

SpecPage == InitPage /\ [][NextPage]_vars

\* The href of an a element, trimmed.
Href(tag) == Strip(Get(tag, "href"))

\* The a elements of a tree that are candidates: a non-empty href that does
\* not start with "#".
LinkCandidates(tree) ==
    {i \in find_all(tree, {"a"}) : Href(tree[i]) # "" /\ ~StartsWith(Href(tree[i]), "#")}

\* The links kept among the candidates of a tree: with a base URL, the hrefs
\* resolved against it that have its network location; without, the hrefs that
\* start with "/".
KeptLinks(tree, base_url) ==
    IF base_url # ""
    THEN {urljoin(base_url, Href(tree[i])) :
             i \in {j \in LinkCandidates(tree) :
                       urlparse(urljoin(base_url, Href(tree[j]))).netloc
                           = urlparse(base_url).netloc}}
    ELSE {Href(tree[i]) : i \in {j \in LinkCandidates(tree) : StartsWith(Href(tree[j]), "/")}}

\* C7: the internal links of the record are the kept links among every a
\* element of the parsed document, wherever it sits in the tree.
C7_LinksOverParsedDocument ==
    dom_pc = "analyzed" => Range(internal_links) = KeptLinks(soup_in, page_url)

\* The statement of C7 over the tree get_visible_text has left.
C7_HoldsOverPrunedTree ==
    dom_pc = "analyzed" => Range(internal_links) = KeptLinks(soup, page_url)


\* The a elements of a tree whose href begins with "#", in document order.
FragmentAnchors(tree) ==
    Sorted({i \in 1..Len(tree) :
               /\ tree[i].kind = "tag" /\ tree[i].name = "a"
               /\ "href" \in DOMAIN tree[i].attrs
               /\ Len(tree[i].attrs["href"]) > 0
               /\ Ch(tree[i].attrs["href"], 1) = "#"})

\* C17: the internal anchors are the trimmed texts of the a elements whose
\* href begins with "#", in document order; with or without a base URL none
\* of these elements gives an internal link, and the internal links are what
\* they would be without them.
C17_FragmentAnchorsApart ==
    dom_pc = "analyzed" =>
        LET at == FragmentAnchors(soup_in)
        IN  /\ internal_anchors = List([k \in 1..Len(at) |-> Strip(soup_in[at[k]].text)])
            /\ \A k \in 1..Len(at) :
                  LET href == Strip(soup_in[at[k]].attrs["href"])
                  IN  /\ href \notin Range(internal_links)
                      /\ page_url # "" => urljoin(page_url, href) \notin Range(internal_links)
            /\ internal_links =
                  extract_internal_links(Pruned(Without(soup_in, Range(at))), page_url)

\* C17's case: two a elements with "#" hrefs before a link of the site, with
\* a base URL: two anchors in document order and the one link.
C17_Witness ==
    /\ dom_pc = "analyzed"
    /\ page_url # ""
    /\ Len(soup_in) = 3
    /\ Get(soup_in[1], "href") = "#bas" /\ Get(soup_in[2], "href") = "#top"
    /\ Get(soup_in[3], "href") = "/about"
    /\ internal_anchors = <<"Bas", "Haut">>
    /\ internal_links = <<"https://a.fr/about">>

-----------------------------------------------------------------------------
(* The removal profiles of get_visible_text and clean_soup. *)

\* The element names the two profiles are stated over.
ProfileNames ==
    {"script", "style", "noscript", "nav", "footer", "form", "iframe", "embed", "object"}

\* The names of the elements that stand at the top of the document.
TopNames(tree) ==
    {tree[i].name : i \in {j \in 1..Len(tree) : tree[j].kind = "tag" /\ tree[j].parent = 0}}

\* Over the documents of SpecProfiles: the cleaner leaves no element of
\* a name iff the name is in cleaner_profile, and get_visible_text leaves none
\* iff it is in text_profile, for every profile name that stands at the top
\* of the document.
ProfilesAre(cleaner_profile, text_profile) ==
    dom_pc = "cleaned" =>
        \A name \in ProfileNames \cap TopNames(soup_in) :
            /\ find_all(soup, {name}) = {} <=> name \in cleaner_profile
            /\ find_all(Pruned(soup_in), {name}) = {} <=> name \in text_profile

\* C15: script, style and noscript are removed by both get_visible_text and
\* clean_soup; get_visible_text removes nav, footer and form besides, and
\* clean_soup removes iframe, embed and object besides.
C15_RemovalProfiles ==
    ProfilesAre({"script", "style", "noscript", "iframe", "embed", "object"},
                {"script", "style", "noscript", "nav", "footer", "form"})

\* What the code does instead: clean_soup leaves noscript in the tree.
C15_CleanerKeepsNoscript ==
    ProfilesAre({"script", "style", "iframe", "embed", "object"},
                {"script", "style", "noscript", "nav", "footer", "form"})


-----------------------------------------------------------------------------
(* scrap_clean/batch_clean.py: one run of clean_html.py per URL of a list,   *)
(* one after the other or in a pool of threads.                              *)

\* urlparse(url).hostname, for a network location without user or port: the
\* network location in lower case; "" stands for None.
Hostname(u) == Lower(urlparse(u).netloc)

\* The candidates of make_output_for_url, by turn of its loop: base.html, then
\* base_1.html, base_2.html, ...
Candidate(base, i) == IF i = 0 THEN base \o ".html" ELSE base \o "_" \o IntStr(i) \o ".html"

RECURSIVE FirstFree(_, _, _)
\* The loop of make_output_for_url from the candidate i on: the first
\* candidate that does not exist.
FirstFree(files, base, i) ==
    IF Candidate(base, i) \notin files THEN Candidate(base, i)
    ELSE FirstFree(files, base, i + 1)

\* make_output_for_url(out_dir, url) when the files of out_dir are these.
make_output_for_url(files, u) ==
    FirstFree(files, IF Hostname(u) = "" THEN "output" ELSE Hostname(u), 0)

\* The URLs a list may hold.
ListUrls == {"https://a.fr/x", "https://A.fr/y", "https://b.fr/", "mailto:x@a.fr"}

InitBatchClean ==
    /\ STOPWORDS = {}
    /\ IdleLex
    /\ IdleBatch
    /\ IdleDom
    /\ IdleRun
    /\ \E n \in 1..MaxUrls : list_urls \in [1..n -> ListUrls]
    /\ concurrency \in {1, 2}
    /\ out_files \in {<<>>, [path \in {"a.fr.html"} |-> 0]}
    /\ targets = <<>>
    /\ jobs = <<>>
    /\ overwritten = {}
    /\ clean_pc = "submit"

\* The jobs of a state.
JobsIn(state) == {i \in 1..Len(jobs) : jobs[i] = state}

\* main's loop, for the next URL: its output path is chosen among the files
\* there are now, and its job is run (sequential) or submitted to the pool.
SubmitJob ==
    /\ clean_pc = "submit"
    /\ Len(targets) < Len(list_urls)
    /\ concurrency <= 1 => JobsIn("queued") \cup JobsIn("running") = {}
    /\ targets' = Append(targets, make_output_for_url(DOMAIN out_files, list_urls[Len(targets) + 1]))
    /\ jobs' = Append(jobs, IF concurrency <= 1 THEN "running" ELSE "queued")
    /\ UNCHANGED <<STOPWORDS, lexVars, batchVars, domVars, runVars, list_urls, concurrency, out_files,
                   overwritten, clean_pc>>

\* A thread of the pool takes the oldest job that waits.
StartJob ==
    /\ JobsIn("queued") # {}
    /\ Cardinality(JobsIn("running")) < concurrency
    /\ LET i == CHOOSE k \in JobsIn("queued") : \A j \in JobsIn("queued") : k <= j
       IN  jobs' = [jobs EXCEPT ![i] = "running"]
    /\ UNCHANGED <<STOPWORDS, lexVars, batchVars, domVars, runVars, list_urls, concurrency, out_files,
                   targets, overwritten, clean_pc>>

\* clean_html.py ends well for a job: the cleaned page is written to its path.
JobWrites ==
    /\ \E i \in JobsIn("running") :
          /\ jobs' = [jobs EXCEPT ![i] = "ok"]
          /\ out_files' = [path \in DOMAIN out_files \cup {targets[i]} |->
                              IF path = targets[i] THEN i ELSE out_files[path]]
          /\ overwritten' = IF targets[i] \in DOMAIN out_files
                            THEN overwritten \cup {targets[i]} ELSE overwritten
    /\ UNCHANGED <<STOPWORDS, lexVars, batchVars, domVars, runVars, list_urls, concurrency, targets,
                   clean_pc>>

\* clean_html.py exits with an error for a job: nothing is written.
JobFails ==
    /\ \E i \in JobsIn("running") : jobs' = [jobs EXCEPT ![i] = "failed"]
    /\ UNCHANGED <<STOPWORDS, lexVars, batchVars, domVars, runVars, list_urls, concurrency, out_files,
                   targets, overwritten, clean_pc>>

\* Every URL was handled and every job has ended: the summary is printed.
Summary ==
    /\ clean_pc = "submit"
    /\ Len(targets) = Len(list_urls)
    /\ JobsIn("queued") \cup JobsIn("running") = {}
    /\ clean_pc' = "summary"
    /\ UNCHANGED <<STOPWORDS, lexVars, batchVars, domVars, runVars, list_urls, concurrency, out_files,
                   targets, jobs, overwritten>>

NextBatchClean == SubmitJob \/ StartJob \/ JobWrites \/ JobFails \/ Summary

SpecBatchClean == InitBatchClean /\ [][NextBatchClean]_vars

\* C24: within a run, two URLs never receive the same output path, and no
\* cleaned file is written over by the job of another URL, whatever the
\* concurrency.
C24_PathsNeverCollide ==
    /\ \A i, j \in 1..Len(targets) : list_urls[i] # list_urls[j] => targets[i] # targets[j]
    /\ overwritten = {}

\* What holds instead: a path is given twice only when no file was there when
\* it was given the second time; one job after the other, no file is ever
\* written over.
C24_FreeWhenGiven ==
    /\ concurrency <= 1 => overwritten = {}
    /\ \A i, j \in 1..Len(targets) :
          (i < j /\ targets[i] = targets[j] /\ concurrency <= 1) => jobs[i] = "failed"

=============================================================================
